---- MODULE Spec2Model ----
(***************************************************************************)
(* A model of generator/generate_briefing.py: the morning-briefing         *)
(* pipeline (acquisition, narration, audio, page, persistence).            *)
(*                                                                         *)
(* Representation.                                                         *)
(*  - A Python dict is a function over the keys it holds; {} is <<>>.  A   *)
(*    key that begins with "~" is held with one more "~" before it (Key),  *)
(*    so that no dict has the key "~".                                     *)
(*  - Where the program reads a dict out of a file or a response (the      *)
(*    portfolio, the crypto answer and its coins, a location's answer, its *)
(*    current_weather and daily, a news item), a JSON value that is not an *)
(*    object (a list, a number, a string) is Other(doc): its JSON document *)
(*    doc under "~".                                                       *)
(*  - portfolio["stocks"] is the sequence of its items in file order, each *)
(*    the pair [symbol, info] of a ticker and what the file holds for it.  *)
(*  - A number read from a response (Bitcoin change, temperature, wind     *)
(*    speed, daily high) is an integer counting 1/Unit-ths: Num(5) is 5.0. *)
(*    Sums and differences of such numbers are exact in the code too.      *)
(*  - A number the code computes by division (a stock's change_pct, a      *)
(*    mean) is an IEEE double [neg, m, e] of value (-1)^neg * m * 2^e,     *)
(*    and every operation on it rounds as the double operation does.       *)
(*  - A narration script is the sequence of the phrases the code appends   *)
(*    to `script`; their concatenation is the text.                        *)
(*  - A string holds characters up to U+00FF.  The em dash (U+2014) of the *)
(*    source's phrases and of headlines is the one character EmDash, which *)
(*    stands for nothing else.                                             *)
(*  - A call that can raise returns [raised, script]; a Python exception   *)
(*    that nothing catches ends the run (pc = "crashed").                  *)
(*  - world.down names the requests that raise (a stock symbol's, the      *)
(*    crypto one, a location's, a feed's), as `failed` names them; what    *)
(*    the file system and the speak script do is chosen at each step.      *)
(***************************************************************************)
EXTENDS Integers, Sequences, FiniteSets, TLC

VARIABLES
    pc,             \* position of main()
    portfolio,      \* main: portfolio
    stocks,         \* main: stocks
    crypto,         \* main: crypto
    weather,        \* main: weather
    articles,       \* fetch_middle_east_news: articles, in collection order
    middle_east_news, \* main: middle_east_news, the ranked news list
    ranked,         \* positions in `articles` of the items of middle_east_news (history)
    world,          \* what the outside answers: files, services (and which of their
                    \* requests raise), the clock
    failed,         \* acquisition sources whose except branch ran (history)
    briefing_data,  \* main: briefing_data, the BriefingRun snapshot
    scripts,        \* generate_all_voices: <topic>_text already synthesised
    attempted,      \* topics generate_voice was called for, in call order
    voice_files,    \* generate_all_voices: voice_files
    spoken,         \* the calls of generate_voice and what each returned (history)
    html,           \* main: html, the rendered page
    disk,           \* files this run created, written in full or not
    events,         \* operations of the run, in the order they completed
    out             \* result of the last narration call on briefing_data

vars == <<pc, portfolio, stocks, crypto, weather, articles, middle_east_news, ranked,
          world, failed, briefing_data, scripts, attempted, voice_files, spoken, html,
          disk, events, out>>

----------------------------------------------------------------------------
(* Bounds of the model *)

\* a number read from a response has Bits binary places: it is a multiple of 1/Unit,
\* held as the integer that counts them
Bits == 1
Unit == 2 ^ Bits

Num(x) == x * Unit

----------------------------------------------------------------------------
(* Python primitives *)

EmptyDict == <<>>

\* the name under which a dict of the model holds the key k, and the key of a name
Key(k) == IF Len(k) > 0 /\ SubSeq(k, 1, 1) = "~" THEN "~" \o k ELSE k
KeyName(key) ==
    IF Len(key) > 0 /\ SubSeq(key, 1, 1) = "~" THEN SubSeq(key, 2, Len(key)) ELSE key

\* the keys of a dict
Names(d) == {KeyName(key) : key \in DOMAIN d}

\* d.get(k, default), k one of the keys the program names (none begins with "~")
Get(d, k, default) == IF k \in DOMAIN d THEN d[k] ELSE default

\* a JSON value that is not an object, where the program reads a dict, and its
\* document
Other(doc) == [key \in {"~"} |-> doc]
DocOf(v) == v["~"]

\* v is a dict: it has .get, .keys and item assignment by name; on anything else
\* .get and .keys raise AttributeError and v[name] = ... raises TypeError
IsDict(v) == "~" \notin DOMAIN v

\* every receiver of a .get is a dict
AllDicts(vs) == \A i \in 1..Len(vs) : IsDict(vs[i])

Abs(x) == IF x < 0 THEN -x ELSE x

Min(a, b) == IF a < b THEN a ELSE b

\* seq[:n]
Take(seq, n) == SubSeq(seq, 1, Min(n, Len(seq)))

\* seq[n:]
Drop(seq, n) == SubSeq(seq, Min(n, Len(seq)) + 1, Len(seq))

RECURSIVE Sum(_)
Sum(seq) == IF Len(seq) = 0 THEN 0 ELSE Head(seq) + Sum(Tail(seq))

\* A natural number of any size is the sequence of its digits in base Limb, the
\* lowest first, with no zero at the top; 0 is <<>>.
Limb == 2 ^ 13

RECURSIVE Trim(_)
Trim(a) == IF Len(a) > 0 /\ a[Len(a)] = 0 THEN Trim(SubSeq(a, 1, Len(a) - 1)) ELSE a

RECURSIVE BigOfInt(_)
BigOfInt(n) == IF n = 0 THEN <<>> ELSE <<n % Limb>> \o BigOfInt(n \div Limb)

\* the number of bits of a natural number below 2^31
RECURSIVE IntBits(_)
IntBits(n) == IF n = 0 THEN 0 ELSE 1 + IntBits(n \div 2)

BigBits(a) == IF Len(a) = 0 THEN 0 ELSE 13 * (Len(a) - 1) + IntBits(a[Len(a)])

BigOdd(a) == Len(a) > 0 /\ a[1] % 2 = 1

RECURSIVE BigAddCarry(_, _, _)
BigAddCarry(a, b, carry) ==
    IF Len(a) = 0 /\ Len(b) = 0 THEN (IF carry = 0 THEN <<>> ELSE <<carry>>)
    ELSE LET x == IF Len(a) = 0 THEN 0 ELSE a[1]
             y == IF Len(b) = 0 THEN 0 ELSE b[1]
             t == x + y + carry
         IN  <<t % Limb>> \o BigAddCarry(IF Len(a) = 0 THEN a ELSE Tail(a),
                                         IF Len(b) = 0 THEN b ELSE Tail(b), t \div Limb)
BigAdd(a, b) == BigAddCarry(a, b, 0)

\* a - b for a >= b
RECURSIVE BigSubBorrow(_, _, _)
BigSubBorrow(a, b, borrow) ==
    IF Len(a) = 0 THEN <<>>
    ELSE LET y == IF Len(b) = 0 THEN 0 ELSE b[1]
             t == a[1] - y - borrow
         IN  <<IF t < 0 THEN t + Limb ELSE t>>
             \o BigSubBorrow(Tail(a), IF Len(b) = 0 THEN b ELSE Tail(b), IF t < 0 THEN 1 ELSE 0)
BigSub(a, b) == Trim(BigSubBorrow(a, b, 0))

\* a < b
RECURSIVE BigLess(_, _)
BigLess(a, b) ==
    IF Len(a) # Len(b) THEN Len(a) < Len(b)
    ELSE IF Len(a) = 0 THEN FALSE
    ELSE IF a[Len(a)] # b[Len(b)] THEN a[Len(a)] < b[Len(b)]
    ELSE BigLess(SubSeq(a, 1, Len(a) - 1), SubSeq(b, 1, Len(b) - 1))

\* a * k for 0 <= k < 2^17
RECURSIVE BigMulCarry(_, _, _)
BigMulCarry(a, k, carry) ==
    IF Len(a) = 0 THEN BigOfInt(carry)
    ELSE LET t == a[1] * k + carry
         IN  <<t % Limb>> \o BigMulCarry(Tail(a), k, t \div Limb)
BigMul(a, k) == Trim(BigMulCarry(a, k, 0))

\* a divided by k, 0 < k < 2^17: the quotient and the remainder
RECURSIVE BigDivFrom(_, _, _)
BigDivFrom(a, k, r) ==
    IF Len(a) = 0 THEN [q |-> <<>>, r |-> r]
    ELSE LET t == r * Limb + a[Len(a)]
             low == BigDivFrom(SubSeq(a, 1, Len(a) - 1), k, t % k)
         IN  [q |-> low.q \o <<t \div k>>, r |-> low.r]
BigDiv(a, k) == LET d == BigDivFrom(a, k, 0) IN [q |-> Trim(d.q), r |-> d.r]

\* a * 2^n
BigShiftLeft(a, n) ==
    IF Len(a) = 0 THEN a
    ELSE [i \in 1..(n \div 13) |-> 0] \o BigMul(a, 2 ^ (n % 13))

\* a divided by 2^n: the quotient, and whether a bit that was 1 is lost
BigShiftRight(a, n) ==
    LET limbs == Min(n \div 13, Len(a))
        d == BigDiv(SubSeq(a, limbs + 1, Len(a)), 2 ^ (n % 13))
    IN  [q |-> d.q, lost |-> d.r # 0 \/ \E i \in 1..limbs : a[i] # 0]

RECURSIVE IntOfBig(_)
IntOfBig(a) == IF Len(a) = 0 THEN 0 ELSE a[1] + Limb * IntOfBig(Tail(a))

\* A float is (-1)^neg * m * 2^e with m of exactly 53 bits, or Zero.
Zero == [neg |-> FALSE, m |-> <<>>, e |-> 0]

\* The element of a singleton.  In {F(v) : v \in {x}} the value of x is worked out
\* once, however often F reads v; the operators below take their operands this way.
Only(S) == CHOOSE v \in S : TRUE

\* Round for n of more than 53 bits, drop of them to go
RoundOff(neg, n, e, more, drop) ==
    Only({Only({Only({IF BigBits(m) > 53
                      THEN [neg |-> neg, m |-> BigShiftRight(m, 1).q, e |-> e + drop + 1]
                      ELSE [neg |-> neg, m |-> m, e |-> e + drop] :
                      m \in {IF BigOdd(kept.q) /\ (kept.lost \/ more \/ BigOdd(down))
                             THEN BigAdd(down, <<1>>) ELSE down}}) :
                down \in {BigShiftRight(kept.q, 1).q}}) :
          kept \in {BigShiftRight(n, drop - 1)}})

\* the float nearest to n * 2^e, ties to even; `more` says that the number rounded is
\* above n * 2^e by less than 2^e (n has more than 54 bits then)
Round(neg, n, e, more) ==
    Only({IF Len(v) = 0 THEN Zero
          ELSE Only({IF drop <= 0
                     THEN [neg |-> neg, m |-> BigShiftLeft(v, 0 - drop), e |-> e + drop]
                     ELSE RoundOff(neg, v, e, w, drop) : drop \in {BigBits(v) - 53}}) :
          v \in {n}, w \in {more}})

\* float(n) for an integer n
FloatOfInt(n) ==
    Only({IF v = 0 THEN Zero
          ELSE Only({[neg |-> v < 0, m |-> BigShiftLeft(BigOfInt(a), 53 - IntBits(a)),
                      e |-> IntBits(a) - 53] : a \in {IF v < 0 THEN 0 - v ELSE v}}) :
          v \in {n}})

\* the float of a number read from a response, x / Unit
Float(x) == Only({IF Len(f.m) = 0 THEN Zero ELSE [f EXCEPT !.e = @ - Bits] : f \in {FloatOfInt(x)}})

\* -x
Negative(x) == Only({IF Len(v.m) = 0 THEN v ELSE [v EXCEPT !.neg = ~v.neg] : v \in {x}})

\* x + y for floats other than Zero, whose mantissas are a and b at the exponent e
AddMantissas(x, y, e, a, b) ==
    IF x.neg = y.neg THEN Round(x.neg, BigAdd(a, b), e, FALSE)
    ELSE IF BigLess(a, b) THEN Round(y.neg, BigSub(b, a), e, FALSE)
    ELSE Round(x.neg, BigSub(a, b), e, FALSE)

\* x + y for floats other than Zero, e the lower of their exponents
AddAligned(x, y, e) ==
    Only({AddMantissas(x, y, e, a, b) :
          a \in {BigShiftLeft(x.m, x.e - e)}, b \in {BigShiftLeft(y.m, y.e - e)}})

\* x + y
FloatAdd(x, y) ==
    Only({IF Len(u.m) = 0 THEN v
          ELSE IF Len(v.m) = 0 THEN u
          ELSE AddAligned(u, v, Min(u.e, v.e)) :
          u \in {x}, v \in {y}})

\* x - y
FloatSub(x, y) == FloatAdd(x, Negative(y))

\* x * k for an integer 0 < k < 2^17
FloatTimes(x, k) == Only({Round(v.neg, BigMul(v.m, k), v.e, FALSE) : v \in {x}})

\* x / k for an integer 0 < k < 2^17
FloatOver(x, k) ==
    Only({Only({Round(v.neg, d.q, v.e - shift, d.r # 0) :
                d \in {BigDiv(BigShiftLeft(v.m, shift), k)}}) :
          v \in {x}, shift \in {IntBits(k) + 3}})

\* x < y for floats of one sign other than Zero, by magnitude
Below(x, y) == x.e < y.e \/ (x.e = y.e /\ BigLess(x.m, y.m))

\* x < y
FloatLess(x, y) ==
    \E u \in {x}, v \in {y} :
        IF Len(u.m) = 0 THEN Len(v.m) > 0 /\ ~v.neg
        ELSE IF Len(v.m) = 0 THEN u.neg
        ELSE IF u.neg # v.neg THEN u.neg
        ELSE IF u.neg THEN Below(v, u) ELSE Below(u, v)

\* sum(xs) for floats
RECURSIVE FloatSumFrom(_, _)
FloatSumFrom(acc, xs) ==
    IF Len(xs) = 0 THEN acc ELSE FloatSumFrom(FloatAdd(acc, Head(xs)), Tail(xs))
FloatSum(xs) == Only({FloatSumFrom(Zero, v) : v \in {xs}})

\* sum(xs) for numbers of a response: every partial sum is a multiple of 1/Unit far
\* below 2^53, so no addition rounds and the sum is the float of the exact sum
SumOfNumbers(xs) == Float(Sum(xs))

\* integer sort keys that order a list of floats as the floats do
FloatRanks(xs) ==
    Only({[i \in 1..Len(v) |-> Cardinality({j \in 1..Len(v) : FloatLess(v[j], v[i])})] :
          v \in {xs}})

\* the number of a response that a float holds: the multiple of 1/Unit at or next
\* below its magnitude, for magnitudes under 2^31 / Unit
Fixed(x) ==
    Only({IF Len(v.m) = 0 THEN 0
          ELSE Only({IF v.neg THEN 0 - n ELSE n :
                     n \in {IntOfBig(BigShiftRight(v.m, 0 - v.e - Bits).q)}}) :
          v \in {x}})

\* abs(x)
FloatAbs(x) == [x EXCEPT !.neg = FALSE]

\* x < n, x > n, x <= n, x >= n for a float x and a number n of a response
Lt(x, n) == FloatLess(x, Float(n))
Gt(x, n) == FloatLess(Float(n), x)
Le(x, n) == ~Gt(x, n)
Ge(x, n) == ~Lt(x, n)

\* a / b for a float a and an integer b: the quotient, or ZeroDivisionError (ok = FALSE)
PyDiv(a, b) == IF b = 0 THEN [ok |-> FALSE, val |-> Zero]
               ELSE [ok |-> TRUE, val |-> FloatOver(a, b)]

\* a number used where a quotient may stand
Exact(x) == [ok |-> TRUE, val |-> x]

\* the integer nearest to m / 2^shift, ties to even
NearestInt(m, shift) ==
    Only({Only({IntOfBig(down) + (IF BigOdd(kept.q) /\ (kept.lost \/ BigOdd(down)) THEN 1 ELSE 0) :
                down \in {BigShiftRight(kept.q, 1).q}}) :
          kept \in {BigShiftRight(m, shift - 1)}})

\* f"{x:.0f}" for a float of magnitude below 2^31: the nearest integer, ties to even,
\* of the float's exact value
FormatF0(x) ==
    Only({IF Len(v.m) = 0 THEN "0"
          ELSE (IF v.neg THEN "-" ELSE "") \o ToString(NearestInt(v.m, 0 - v.e)) :
          v \in {x}})

\* the em dash, U+2014
EmDash == "¯"

\* the characters up to U+00FF that str.lower() changes, and what it makes of them
UpperLetters == "ABCDEFGHIJKLMNOPQRSTUVWXYZÀÁÂÃÄÅÆÇÈÉÊËÌÍÎÏÐÑÒÓÔÕÖØÙÚÛÜÝÞ"
LowerLetters == "abcdefghijklmnopqrstuvwxyzàáâãäåæçèéêëìíîïðñòóôõöøùúûüýþ"

\* the lower-case letter of every upper-case letter
LowerOf ==
    [c \in {SubSeq(UpperLetters, i, i) : i \in 1..Len(UpperLetters)} |->
        LET i == CHOOSE j \in 1..Len(UpperLetters) : SubSeq(UpperLetters, j, j) = c
        IN  SubSeq(LowerLetters, i, i)]

\* c.lower() for one character
LowerChar(c) == IF c \in DOMAIN LowerOf THEN LowerOf[c] ELSE c

\* s.lower()
RECURSIVE Lower(_)
Lower(s) == IF Len(s) = 0 THEN ""
            ELSE LowerChar(SubSeq(s, 1, 1)) \o Lower(SubSeq(s, 2, Len(s)))

\* kw in s
Contains(s, kw) ==
    \E i \in 1..(Len(s) - Len(kw) + 1) : SubSeq(s, i, i + Len(kw) - 1) = kw

\* s.replace(c, to) for one character c
RECURSIVE ReplaceChar(_, _, _)
ReplaceChar(s, c, to) ==
    IF Len(s) = 0 THEN ""
    ELSE (IF SubSeq(s, 1, 1) = c THEN to ELSE SubSeq(s, 1, 1))
         \o ReplaceChar(SubSeq(s, 2, Len(s)), c, to)

\* s.replace(c, '') for one character c
RECURSIVE RemoveChar(_, _)
RemoveChar(s, c) ==
    IF Len(s) = 0 THEN ""
    ELSE (IF SubSeq(s, 1, 1) = c THEN "" ELSE SubSeq(s, 1, 1))
         \o RemoveChar(SubSeq(s, 2, Len(s)), c)

\* ' '.join(strs)
RECURSIVE Join(_)
Join(strs) == IF Len(strs) = 0 THEN ""
              ELSE IF Len(strs) = 1 THEN strs[1]
              ELSE strs[1] \o " " \o Join(Tail(strs))

\* the result of a narration call
Return(script) == [raised |-> FALSE, script |-> script]
Raise == [raised |-> TRUE, script |-> <<>>]

\* cond ? <<phrase>> : <<>>
When(cond, phrases) == IF cond THEN phrases ELSE <<>>

----------------------------------------------------------------------------
(* Configuration *)

Topics == {"summary", "stocks", "crypto", "news", "weather"}

\* the order generate_all_voices handles the topics in
TopicOrder == <<"summary", "stocks", "crypto", "news", "weather">>

VOICES == [summary |-> "bm_lewis", stocks |-> "am_michael", crypto |-> "af_nova",
           news |-> "bf_emma", weather |-> "am_adam"]

\* list.sort(key=...): the stable ascending order of the keys, as the sequence of
\* the positions the sorted list takes its elements from
RECURSIVE SortOrder(_)
SortOrder(keys) ==
    IF Len(keys) = 0 THEN <<>>
    ELSE LET n == Len(keys)
             front == SortOrder(SubSeq(keys, 1, n - 1))
             k == Cardinality({i \in 1..(n - 1) : keys[front[i]] <= keys[n]})
         IN  SubSeq(front, 1, k) \o <<n>> \o SubSeq(front, k + 1, n - 1)

\* the list in the order given by the positions
Permute(seq, order) == [k \in 1..Len(order) |-> seq[order[k]]]

----------------------------------------------------------------------------
(* Narration synthesis *)

\* generate_news_script: tension_keywords
\* tension_keywords with whole words only
tension_keywords_whole_words ==
    <<"strike", "attack", "missile", "killed", "war", "escalate", "threat">>

tension_keywords == <<"strike", "attack", "missile", "killed", "war", "escalat", "threat">>

\* title.replace(em dash, '-').replace('"', '').replace("'", "")
CleanTitle(title) == RemoveChar(RemoveChar(ReplaceChar(title, EmDash, "-"), "\""), "'")

\* the phrases of the loop over articles[:3]
StoryPhrases(top3) ==
    LET Story(i) ==
            LET title == CleanTitle(Get(top3[i], "title", ""))
                relevance == Get(top3[i], "relevance", 0)
            IN  IF i = 1
                THEN <<"Top story: " \o title \o ". ">>
                     \o When(relevance > 3, <<"This is a significant development. ">>)
                ELSE <<title \o ". ">>
    IN  (IF Len(top3) >= 1 THEN Story(1) ELSE <<>>)
        \o (IF Len(top3) >= 2 THEN Story(2) ELSE <<>>)
        \o (IF Len(top3) >= 3 THEN Story(3) ELSE <<>>)

QuietDay == "Quiet day on the Middle East front. No major developments to report."
HeadsUp == "Alright, heads up " \o EmDash \o " there's significant tension in the region right now. "
WhatsHappening == "Here's what's happening in the Middle East. "
GazaLine == "The Gaza situation continues to dominate headlines. "
IranLine == "Iran-related tensions are in play. Keep an eye on that. "
RedSeaLine == "Red Sea shipping disruptions ongoing. "
GulfLine == "Gulf states making moves. "
RegionalUpdate == "That's your regional update. Stay safe out there."

\* QuietScript followed by the closing of the other scripts
QuietScript_with_closing == <<QuietDay, RegionalUpdate>>

\* if not articles: return "Quiet day ..."
QuietScript == <<QuietDay>>

\* ContextLines as one if / elif chain
ContextLines_first_match(combined) ==
    IF Contains(combined, "gaza") \/ Contains(combined, "israel") THEN <<GazaLine>>
    ELSE IF Contains(combined, "iran") THEN <<IranLine>>
    ELSE IF Contains(combined, "houthi") \/ Contains(combined, "red sea") THEN <<RedSeaLine>>
    ELSE IF Contains(combined, "saudi") \/ Contains(combined, "uae") THEN <<GulfLine>>
    ELSE <<>>

\* the context sentences: four separate if statements on `combined`
ContextLines(combined) ==
    When(Contains(combined, "gaza") \/ Contains(combined, "israel"), <<GazaLine>>)
    \o When(Contains(combined, "iran"), <<IranLine>>)
    \o When(Contains(combined, "houthi") \/ Contains(combined, "red sea"), <<RedSeaLine>>)
    \o When(Contains(combined, "saudi") \/ Contains(combined, "uae"), <<GulfLine>>)

generate_news_script(data) ==
    LET news == Get(data, "news", EmptyDict)
        arts == Get(news, "middle_east", <<>>)
        top3 == Take(arts, 3)
        top5 == Take(arts, 5)
        high_tension ==
            \E i \in 1..Len(top3) :
                LET title_lower == Lower(Get(top3[i], "title", ""))
                IN  \E k \in 1..Len(tension_keywords) :
                        Contains(title_lower, tension_keywords[k])
        combined == Join([i \in 1..Len(top5) |-> Lower(Get(top5[i], "title", ""))])
    IN  IF ~IsDict(news)
        THEN Raise
        ELSE IF Len(arts) = 0
        THEN Return(QuietScript)
        ELSE IF ~AllDicts(top5)
        THEN Raise
        ELSE Return(
            (IF high_tension THEN <<HeadsUp>> ELSE <<WhatsHappening>>)
            \o StoryPhrases(top3)
            \o ContextLines(combined)
            \o <<RegionalUpdate>>)

\* portfolio["stocks"], a dict from ticker to holding, is the sequence of its items
\* in file order: the ticker and what is held under it, a dict or not.  A value
\* under "stocks" that is not a dict is the one-element sequence of it.
Holding(sym, info) == [symbol |-> sym, info |-> info]
OtherHoldings(doc) == <<Other(doc)>>

\* held has .keys and .items
IsHoldings(held) == Len(held) = 0 \/ "symbol" \in DOMAIN held[1]

\* data["portfolio"]["stocks"], read with the defaults of the program
HeldOf(data) == Get(Get(data, "portfolio", EmptyDict), "stocks", <<>>)

\* portfolio.get("stocks", {}).keys() / .items(): the portfolio and its holdings
\* are dicts
HoldingsReadable(data) ==
    IsDict(Get(data, "portfolio", EmptyDict)) /\ IsHoldings(HeldOf(data))

\* stocks.get(sym, {}).get(...) for every held sym: the values .get is called on,
\* none when nothing is held
QuoteReceivers(data) ==
    LET held == HeldOf(data)
        quotes == Get(data, "stocks", EmptyDict)
    IN  IF Len(held) = 0 THEN <<>>
        ELSE <<quotes>>
             \o [i \in 1..Len(held) |-> Get(quotes, Key(held[i].symbol), EmptyDict)]

\* movers: (symbol, change_pct) of every held ticker, in portfolio order
Movers(data) ==
    LET held == HeldOf(data)
        quotes == Get(data, "stocks", EmptyDict)
    IN  [i \in 1..Len(held) |->
            [sym |-> held[i].symbol,
             change |-> Get(Get(quotes, Key(held[i].symbol), EmptyDict),
                            "change_pct", Zero)]]

\* SortedMovers ordering by magnitude, largest first
SortedMovers_by_magnitude(data) ==
    LET movers == Movers(data)
    IN  Permute(movers, SortOrder(FloatRanks([i \in 1..Len(movers) |-> Negative(FloatAbs(movers[i].change))])))

\* movers.sort(key=lambda x: x[1])
SortedMovers(data) ==
    LET movers == Movers(data)
    IN  Permute(movers, SortOrder(FloatRanks([i \in 1..Len(movers) |-> movers[i].change])))

\* avg_change without its `if movers else 0`
avg_change_unguarded(movers) ==
    PyDiv(FloatSum([i \in 1..Len(movers) |-> movers[i].change]), Len(movers))

\* sum(m[1] for m in movers) / len(movers) if movers else 0
avg_change(movers) ==
    IF Len(movers) > 0
    THEN PyDiv(FloatSum([i \in 1..Len(movers) |-> movers[i].change]), Len(movers))
    ELSE Exact(Zero)

\* sum(week_highs) / len(week_highs) if week_highs else doha_temp
avg_high(highs, doha_temp) ==
    IF Len(highs) > 0 THEN PyDiv(SumOfNumbers(highs), Len(highs))
    ELSE Exact(Float(doha_temp))

RedDay == "Red day in the markets. "
GreenDay == "Green day for your portfolio. "
MixedDay == "Markets are mixed today. "

\* StockNarrative with the green threshold at +2, the mirror of the red one
StockNarrative_symmetric(movers, avg) ==
    IF Lt(avg.val, Num(-2))
    THEN <<RedDay>>
         \o When(Len(movers) > 0 /\ Lt(movers[1].change, Num(-3)),
                 <<movers[1].sym \o " is your biggest drag. ">>)
    ELSE IF Gt(avg.val, Num(2))
    THEN <<GreenDay>>
    ELSE <<MixedDay>>

\* the market framing sentence(s) of the summary
StockNarrative(movers, avg) ==
    IF Lt(avg.val, Num(-2))
    THEN <<RedDay>>
         \o When(Len(movers) > 0 /\ Lt(movers[1].change, Num(-3)),
                 <<movers[1].sym \o " is your biggest drag. ">>)
    ELSE IF Gt(avg.val, Num(1))
    THEN <<GreenDay>>
    ELSE <<MixedDay>>

SignificantNews == "There's some significant Middle East news to cover. "

\* the teaser condition: me_news and me_news[0].get('relevance', 0) > 2
NewsTeaser(me_news) ==
    When(Len(me_news) > 0 /\ Get(me_news[1], "relevance", 0) > 2, <<SignificantNews>>)

\* the main-story sentence for a Bitcoin move of the given size
TakingAHit(size) ==
    "Crypto's taking a hit " \o EmDash \o " Bitcoin's down about " \o FormatF0(Float(size)) \o " percent. "

\* if abs(btc_change) > 5: script += f"Crypto's taking a hit ... {abs(btc_change):.0f} percent. "
MainStory(btc_change) ==
    When(Abs(btc_change) > Num(5), <<TakingAHit(Abs(btc_change))>>)

\* the values generate_summary_script calls .get or .keys on that come out of the
\* portfolio file or a response
SummaryReceivers(data) ==
    LET crypto_ == Get(data, "crypto", EmptyDict)
        weather_ == Get(data, "weather", EmptyDict)
        doha_weather == Get(weather_, "doha", EmptyDict)
        news == Get(data, "news", EmptyDict)
    IN  <<crypto_, Get(crypto_, "bitcoin", EmptyDict), weather_,
          doha_weather, Get(doha_weather, "current_weather", EmptyDict),
          Get(doha_weather, "daily", EmptyDict), news>>
        \o Take(Get(news, "middle_east", <<>>), 1)

generate_summary_script(data, date) ==
    LET movers == SortedMovers(data)
        crypto_ == Get(data, "crypto", EmptyDict)
        weather_ == Get(data, "weather", EmptyDict)
        news == Get(data, "news", EmptyDict)
        btc_change == Get(Get(crypto_, "bitcoin", EmptyDict), "usd_24h_change", 0)
        doha_weather == Get(weather_, "doha", EmptyDict)
        doha_temp == Get(Get(doha_weather, "current_weather", EmptyDict),
                         "temperature", Num(20))
        daily == Get(doha_weather, "daily", EmptyDict)
        has_highs == Len(Get(daily, "temperature_2m_max", <<>>)) > 0
        week_highs == Take(Get(daily, "temperature_2m_max", <<>>), 7)
        avgh == avg_high(week_highs, doha_temp)
        avgc == avg_change(movers)
    IN  IF \/ ~HoldingsReadable(data)
           \/ ~AllDicts(QuoteReceivers(data))
           \/ ~AllDicts(SummaryReceivers(data))
           \/ (has_highs /\ ~avgh.ok)
           \/ ~avgc.ok
        THEN Raise
        ELSE Return(
            <<"Morning Bernhard. " \o date \o ". ">>
            \o <<"It's " \o FormatF0(Float(doha_temp)) \o " degrees in Doha right now. ">>
            \o When(has_highs,
                    IF Gt(avgh.val, Num(30)) THEN <<"Staying hot all week. ">>
                    ELSE IF Gt(avgh.val, Num(25)) THEN <<"Nice weather ahead for the week. ">>
                    ELSE <<"Cooler week coming up. ">>)
            \o MainStory(btc_change)
            \o StockNarrative(movers, avgc)
            \o NewsTeaser(Get(news, "middle_east", <<>>))
            \o <<"Check the sections for the full breakdown.">>)

\* generate_stocks_script: tech_stocks
tech_stocks == <<"NVDA", "GOOGL", "META", "AAPL", "MSFT", "AMZN">>

\* [stocks.get(s, {}).get("change_pct", 0) for s in tech_stocks if s in stocks]
tech_changes(quotes) ==
    LET present == SelectSeq(tech_stocks, LAMBDA s : s \in DOMAIN quotes)
    IN  [i \in 1..Len(present) |-> Get(quotes[present[i]], "change_pct", Zero)]

\* avg_tech dividing by the length of the watch list instead of the quoted tickers
avg_tech_over_watch_list(changes) ==
    IF Len(changes) > 0 THEN PyDiv(FloatSum(changes), Len(tech_stocks)) ELSE Exact(Zero)

\* sum(tech_changes) / len(tech_changes) if tech_changes else 0
avg_tech(changes) ==
    IF Len(changes) > 0 THEN PyDiv(FloatSum(changes), Len(changes)) ELSE Exact(Zero)

\* stocks[sym].get('change_pct', 0), read only where sym in stocks
ChangeOf(quotes, sym) == Get(quotes[sym], "change_pct", Zero)

\* the tickers generate_stocks_script looks up in stocks
LookedUp == tech_stocks \o <<"TSLA", "VOO">>

\* sym in stocks, for stocks a dict, a list or a str
InQuotes(quotes, sym) ==
    IF IsDict(quotes) THEN sym \in DOMAIN quotes
    ELSE IF DocOf(quotes).t = "array"
    THEN \E i \in 1..Len(DocOf(quotes).items) :
            DocOf(quotes).items[i].t = "string" /\ DocOf(quotes).items[i].s = sym
    ELSE DocOf(quotes).t = "string" /\ Contains(DocOf(quotes).s, sym)

\* a lookup raises: `sym in stocks` on a number, stocks.get or stocks[sym] on stocks
\* that are no dict, .get on a quote that is no dict
LookupRaises(quotes) ==
    \/ ~IsDict(quotes) /\ DocOf(quotes).t = "number"
    \/ \E i \in 1..Len(LookedUp) :
            /\ InQuotes(quotes, LookedUp[i])
            /\ ~IsDict(quotes) \/ ~IsDict(quotes[LookedUp[i]])

TechHit == "Tech is getting hit across the board today. "
TechHitWhy == "This usually means either rate concerns, or investors rotating out of growth. "
TechLeading == "Tech is leading the charge today " \o EmDash \o " risk-on mode. "
NvidiaDown == "Nvidia's down " \o EmDash \o " probably AI sentiment cooling off, or chip sector rotation. Nothing fundamental changed. "
NvidiaUp == "Nvidia's pushing higher " \o EmDash \o " AI hype train keeps rolling. "
MarketDown == "The broader market via VOO is down too, so this isn't just your picks " \o EmDash \o " it's the whole market. "
MarketUp == "The market overall is up, so rising tide lifting all boats. "

\* the sector commentary: if avg_tech < -2 ... elif avg_tech > 2 ...
SectorCommentary(avgt) ==
    IF Lt(avgt.val, Num(-2)) THEN <<TechHit, TechHitWhy>>
    ELSE IF Gt(avgt.val, Num(2)) THEN <<TechLeading>>
    ELSE <<>>

\* MarketProxy with the thresholds included
MarketProxy_inclusive(quotes) ==
    When("VOO" \in DOMAIN quotes,
         IF Le(ChangeOf(quotes, "VOO"), Num(-1)) THEN <<MarketDown>>
         ELSE IF Ge(ChangeOf(quotes, "VOO"), Num(1)) THEN <<MarketUp>>
         ELSE <<>>)

\* VOO as market proxy: if 'VOO' in stocks: if voo_change < -1 ... elif voo_change > 1 ...
MarketProxy(quotes) ==
    When("VOO" \in DOMAIN quotes,
         IF Lt(ChangeOf(quotes, "VOO"), Num(-1)) THEN <<MarketDown>>
         ELSE IF Gt(ChangeOf(quotes, "VOO"), Num(1)) THEN <<MarketUp>>
         ELSE <<>>)

generate_stocks_script(data) ==
    LET quotes == Get(data, "stocks", EmptyDict)
        avgt == avg_tech(tech_changes(quotes))
        Has(sym) == sym \in DOMAIN quotes
    IN  IF \/ ~HoldingsReadable(data)
           \/ ~AllDicts(QuoteReceivers(data))
           \/ LookupRaises(quotes)
           \/ ~avgt.ok
        THEN Raise
        ELSE Return(
            <<"Alright, let's talk about what's actually happening with your stocks. ">>
            \o SectorCommentary(avgt)
            \o When(Has("NVDA") /\ Gt(FloatAbs(ChangeOf(quotes, "NVDA")), Num(2)),
                    IF Lt(ChangeOf(quotes, "NVDA"), 0)
                    THEN <<NvidiaDown>>
                    ELSE <<NvidiaUp>>)
            \o When(Has("TSLA") /\ Gt(FloatAbs(ChangeOf(quotes, "TSLA")), Num(2)),
                    <<"Tesla's volatile as usual " \o EmDash \o " you know how that goes. ">>)
            \o When(Has("AMZN") /\ Lt(ChangeOf(quotes, "AMZN"), Num(-3)),
                    <<"Amazon taking a hit " \o EmDash \o " could be profit-taking or broader retail concerns. ">>)
            \o MarketProxy(quotes)
            \o <<"No major earnings or news moving your specific holdings that I can see. Mostly macro sentiment.">>)

SignificantPullback == "We're seeing a significant pullback. "
SlightPullback == "Slight pullback " \o EmDash \o " nothing unusual. Crypto does this. "
Rally == "Nice rally happening. "
Quiet == "Pretty quiet in crypto land. Consolidation phase. "

\* CryptoBand with the -5 edge inclusive
CryptoBand_inclusive(btc_change, btc_price) ==
    IF btc_change <= Num(-5)
    THEN <<SignificantPullback,
           "This kind of drop is usually one of three things: ",
           "either macro fear pushing people to cash, ",
           "whales taking profits, ",
           "or some regulatory news spooking the market. ",
           "Nothing has fundamentally changed about Bitcoin though. ">>
         \o When(btc_price > 60000,
                 <<"We're still well above sixty K, so this is normal volatility in the grand scheme. ">>)
    ELSE IF btc_change < Num(-2)
    THEN <<SlightPullback, "Could just be profit-taking after recent gains. ">>
    ELSE IF btc_change > Num(5)
    THEN <<Rally, "Usually driven by institutional buying or positive sentiment around ETFs. ">>
    ELSE <<Quiet>>

\* the band of the Bitcoin move: if / elif / elif / else on btc_change
CryptoBand(btc_change, btc_price) ==
    IF btc_change < Num(-5)
    THEN <<SignificantPullback,
           "This kind of drop is usually one of three things: ",
           "either macro fear pushing people to cash, ",
           "whales taking profits, ",
           "or some regulatory news spooking the market. ",
           "Nothing has fundamentally changed about Bitcoin though. ">>
         \o When(btc_price > 60000,
                 <<"We're still well above sixty K, so this is normal volatility in the grand scheme. ">>)
    ELSE IF btc_change < Num(-2)
    THEN <<SlightPullback, "Could just be profit-taking after recent gains. ">>
    ELSE IF btc_change > Num(5)
    THEN <<Rally, "Usually driven by institutional buying or positive sentiment around ETFs. ">>
    ELSE <<Quiet>>

Lockstep == "ETH is moving in lockstep with Bitcoin, which is normal. "
Underperforming == "Ethereum's underperforming Bitcoin today " \o EmDash \o " sometimes means money rotating into BTC for safety. "
Outperforming == "Interesting " \o EmDash \o " ETH is outperforming BTC. Could be Layer 2 hype or DeFi activity picking up. "

\* EthCorrelation with one threshold, 2, for all three branches
EthCorrelation_one_threshold(btc_change, eth_change) ==
    IF Abs(btc_change - eth_change) < Num(2) THEN <<Lockstep>>
    ELSE IF eth_change < btc_change THEN <<Underperforming>>
    ELSE <<Outperforming>>

\* the ETH correlation sentence: if / elif / elif on the two changes
EthCorrelation(btc_change, eth_change) ==
    IF Abs(btc_change - eth_change) < Num(2) THEN <<Lockstep>>
    ELSE IF eth_change < btc_change - Num(3) THEN <<Underperforming>>
    ELSE IF eth_change > btc_change + Num(3) THEN <<Outperforming>>
    ELSE <<>>

\* the sentiment sentence
CryptoSentiment(btc_change) ==
    When(btc_change < Num(-5),
         <<"Sentiment is fearful right now, which historically has been a good time to accumulate if you're long-term. ">>)

\* btc_price is in whole dollars
generate_crypto_script(data) ==
    LET crypto_ == Get(data, "crypto", EmptyDict)
        btc == Get(crypto_, "bitcoin", EmptyDict)
        eth == Get(crypto_, "ethereum", EmptyDict)
        btc_change == Get(btc, "usd_24h_change", 0)
        eth_change == Get(eth, "usd_24h_change", 0)
        btc_price == Get(btc, "usd", 0)
    IN  IF ~AllDicts(<<crypto_, btc, eth>>)
        THEN Raise
        ELSE Return(
            <<"Okay, crypto. ">>
            \o CryptoBand(btc_change, btc_price)
            \o EthCorrelation(btc_change, eth_change)
            \o CryptoSentiment(btc_change)
            \o <<"You're holding for the long run anyway, so don't let the daily noise stress you out.">>)

\* the temperature advisory: if / elif / elif / else on doha_temp
NiceAndCool == "Nice and cool " \o EmDash \o " enjoy it while it lasts. "
Comfortable == "Comfortable temperature. "
WarmButManageable == "Warm but manageable. "
HotOne == "Hot one. Stay hydrated. "

\* TempBand with the upper edge of each band included
TempBand_inclusive(doha_temp) ==
    IF doha_temp <= Num(22) THEN <<NiceAndCool>>
    ELSE IF doha_temp <= Num(30) THEN <<Comfortable>>
    ELSE IF doha_temp <= Num(38) THEN <<WarmButManageable>>
    ELSE <<HotOne>>

\* the temperature advisory: if / elif / elif / else on doha_temp
TempBand(doha_temp) ==
    IF doha_temp < Num(22) THEN <<NiceAndCool>>
    ELSE IF doha_temp < Num(30) THEN <<Comfortable>>
    ELSE IF doha_temp < Num(38) THEN <<WarmButManageable>>
    ELSE <<HotOne>>

LightWinds == "Light winds at the base. "
CalmConditions == "Calm conditions at the base. "
WatchTheWind == "Watch the wind out there " \o EmDash \o " "

\* WindBand with the advisory above 30
WindBand_over_thirty(udeid_wind) ==
    IF udeid_wind > Num(30)
    THEN <<WatchTheWind \o FormatF0(Float(udeid_wind))
           \o " K per hour. Could affect flight ops. ">>
    ELSE IF udeid_wind > Num(15) THEN <<LightWinds>>
    ELSE <<CalmConditions>>

\* the wind commentary: if / elif / else on udeid_wind
WindBand(udeid_wind) ==
    IF udeid_wind > Num(25)
    THEN <<WatchTheWind \o FormatF0(Float(udeid_wind))
           \o " K per hour. Could affect flight ops. ">>
    ELSE IF udeid_wind > Num(15) THEN <<LightWinds>>
    ELSE <<CalmConditions>>

\* sum(highs[:3]) / 3
early_week(highs) == PyDiv(SumOfNumbers(Take(highs, 3)), 3)

\* sum(highs[3:]) / len(highs[3:]) if len(highs) > 3 else early_week
late_week(highs) ==
    IF Len(highs) > 3 THEN PyDiv(SumOfNumbers(Drop(highs, 3)), Len(Drop(highs, 3)))
    ELSE early_week(highs)

WarmingUp == "Warming up toward the weekend. "
CoolingDown == "Cooling down later in the week. "
PrettyConsistent == "Pretty consistent all week. "

\* the trend sentence, for len(highs) >= 3: if late_week > early_week + 3 ...
\* elif late_week < early_week - 3 ..., each side a float
Trend(highs) ==
    LET early == early_week(highs).val
        late == late_week(highs).val
    IN  IF FloatLess(FloatAdd(early, FloatOfInt(3)), late) THEN <<WarmingUp>>
        ELSE IF FloatLess(late, FloatSub(early, FloatOfInt(3))) THEN <<CoolingDown>>
        ELSE <<PrettyConsistent>>

generate_weather_script(data) ==
    LET weather_ == Get(data, "weather", EmptyDict)
        doha == Get(weather_, "doha", EmptyDict)
        al_udeid == Get(weather_, "al_udeid", EmptyDict)
        doha_current == Get(doha, "current_weather", EmptyDict)
        udeid_current == Get(al_udeid, "current_weather", EmptyDict)
        doha_temp == Get(doha_current, "temperature", Num(20))
        udeid_temp == Get(udeid_current, "temperature", doha_temp)
        udeid_wind == Get(udeid_current, "windspeed", 0)
        daily == Get(doha, "daily", EmptyDict)
        has_highs == Len(Get(daily, "temperature_2m_max", <<>>)) > 0
        highs == Take(Get(daily, "temperature_2m_max", <<>>), 7)
        avgh == avg_high(highs, doha_temp)
        has_trend == has_highs /\ Len(highs) >= 3
    IN  IF \/ ~AllDicts(<<weather_, doha, al_udeid, doha_current, udeid_current, daily>>)
           \/ has_highs /\ ~avgh.ok
           \/ has_trend /\ ~late_week(highs).ok
        THEN Raise
        ELSE Return(
            <<"Doha right now: " \o FormatF0(Float(doha_temp)) \o " degrees. ">>
            \o TempBand(doha_temp)
            \o <<"Al Udeid is sitting at " \o FormatF0(Float(udeid_temp)) \o " degrees. ">>
            \o WindBand(udeid_wind)
            \o When(has_highs,
                    <<"Looking at the week ahead: highs around " \o FormatF0(avgh.val)
                      \o " degrees. ">>
                    \o When(Len(highs) >= 3, Trend(highs)))
            \o <<"Safe travels if you're heading to the base.">>)

\* the narration function of a topic
Narrate(topic, data, date) ==
    CASE topic = "summary" -> generate_summary_script(data, date)
      [] topic = "stocks" -> generate_stocks_script(data)
      [] topic = "crypto" -> generate_crypto_script(data)
      [] topic = "news" -> generate_news_script(data)
      [] topic = "weather" -> generate_weather_script(data)

----------------------------------------------------------------------------
(* Data acquisition *)

\* fetch_stock_data, one symbol answered: q is what the ticker reports, in whole
\* dollars; change_pct = ((price - prev) / prev) * 100 if prev else 0
Quote(q) ==
    [price |-> q.last_price,
     change_pct |-> IF q.previous_close # 0
                    THEN FloatTimes(FloatOver(FloatOfInt(q.last_price - q.previous_close),
                                              q.previous_close), 100)
                    ELSE Zero,
     prev_close |-> q.previous_close,
     prices_5d |-> SubSeq(q.closes, Len(q.closes) - Min(5, Len(q.closes)) + 1, Len(q.closes))]

\* fetch_stock_data, the except branch
QuoteError == [price |-> 0, change_pct |-> Zero, error |-> "error"]

\* fetch_stock_data(symbols), the symbols in fails raising
fetch_stock_data(symbols, quotes, fails) ==
    [key \in {Key(symbols[i]) : i \in 1..Len(symbols)} |->
        IF KeyName(key) \in fails THEN QuoteError ELSE Quote(quotes[KeyName(key)])]

\* fetch_crypto_data(): resp.json() as it is, a dict or not, or {} when the
\* request raises
fetch_crypto_data(response, fails) == IF fails THEN EmptyDict ELSE response

\* fetch_weather: locations
locations == [doha |-> "Doha", al_udeid |-> "Al Udeid Air Base"]

\* resp.json() with ["location_name"] set
WithLocationName(response, name) ==
    [k \in DOMAIN response \cup {"location_name"} |->
        IF k = "location_name" THEN name ELSE response[k]]

\* weather_data[key] = resp.json(); weather_data[key]["location_name"] = loc["name"]:
\* the answer is stored first, and setting the name on an answer that is not a dict
\* raises TypeError, which leaves the stored answer as it is
StoredAnswer(response, name) ==
    IF IsDict(response) THEN WithLocationName(response, name) ELSE response

\* fetch_weather(), the requests of the locations in fails raising
fetch_weather(responses, fails) ==
    [key \in DOMAIN locations \ fails |-> StoredAnswer(responses[key], locations[key])]

\* the locations whose except branch runs: the request raised, or line 114 did
FailedLocations(responses, fails) ==
    fails \cup {key \in DOMAIN locations : ~IsDict(responses[key])}

\* resp of requests.get(feed["url"], ...) for every feed of a world
Responses(w) ==
    [k \in 1..Len(w.feeds) |-> [status_code |-> w.status[k], content |-> w.feeds[k]]]

\* fetch_middle_east_news: the source label of each feed
feeds == <<"AP", "Reuters", "AP", "Reuters">>

\* fetch_middle_east_news: priority_keywords
priority_keywords ==
    <<"israel", "gaza", "hamas", "hezbollah", "iran", "lebanon",
      "yemen", "houthi", "red sea", "syria", "iraq", "saudi",
      "qatar", "uae", "gulf", "palestinian", "netanyahu", "tehran",
      "strike", "missile", "attack", "tension", "conflict", "war">>

\* root.findall('.//item')[:10]
ItemsPerFeed == 10

\* a[:50]
PrefixLen == 50

\* unique[:5]
TopN == 5

\* sum(1 for kw in priority_keywords if kw in text_lower)
Relevance(text_lower) ==
    Cardinality({k \in 1..Len(priority_keywords) : Contains(text_lower, priority_keywords[k])})

\* An RSS element is [elem, text, s]: the element exists, its .text is not None,
\* and the text.  desc_elem.text of an empty <description/> is None, and
\* title + ' ' + None raises TypeError.
ItemRaises(item) == item.title.elem /\ item.description.elem /\ ~item.description.text

\* the article appended for one item with a title element
Article(item, source) ==
    LET title == IF item.title.text THEN item.title.s ELSE ""
        desc == IF item.description.elem THEN item.description.s ELSE ""
    IN  [title |-> title, description |-> desc, source |-> source,
         relevance |-> Relevance(Lower(title \o " " \o desc))]

\* the loop over the items of one feed: the articles appended before an item
\* raises, and whether one raised
RECURSIVE ParseItems(_, _)
ParseItems(items, source) ==
    IF Len(items) = 0 THEN [articles |-> <<>>, raised |-> FALSE]
    ELSE IF ItemRaises(Head(items)) THEN [articles |-> <<>>, raised |-> TRUE]
    ELSE LET rest == ParseItems(Tail(items), source)
         IN  [articles |-> (IF Head(items).title.elem
                            THEN <<Article(Head(items), source)>> ELSE <<>>)
                           \o rest.articles,
              raised |-> rest.raised]

\* one iteration of `for feed in feeds`: requests.get raises, or resp has a status
\* other than 200 and nothing is read, or the first items of the document are read
ReadFeed(k, resp, fails) ==
    IF fails THEN [articles |-> <<>>, raised |-> TRUE]
    ELSE IF resp.status_code # 200 THEN [articles |-> <<>>, raised |-> FALSE]
    ELSE ParseItems(Take(resp.content, ItemsPerFeed), feeds[k])

\* the articles collected from all feeds, in collection order
RECURSIVE Collect(_, _, _)
Collect(k, responses, fails) ==
    IF k > Len(feeds) THEN <<>>
    ELSE ReadFeed(k, responses[k], k \in fails).articles \o Collect(k + 1, responses, fails)

\* a['title'][:50].lower()
title_key(a) == Lower(Take(a.title, PrefixLen))

\* RelevanceOrder without the sort: the collection order
RelevanceOrder_unsorted(arts) == [i \in 1..Len(arts) |-> i]

\* RelevanceOrder without reverse=True: lowest relevance first
RelevanceOrder_ascending(arts) == SortOrder([i \in 1..Len(arts) |-> arts[i].relevance])

\* articles.sort(key=lambda x: x['relevance'], reverse=True), as positions
RelevanceOrder(arts) == SortOrder([i \in 1..Len(arts) |-> 0 - arts[i].relevance])

\* the deduplication loop over the sorted positions
RECURSIVE Unique(_, _, _)
Unique(arts, order, seen) ==
    IF Len(order) = 0 THEN <<>>
    ELSE LET key == title_key(arts[Head(order)])
         IN  IF key \notin seen
             THEN <<Head(order)>> \o Unique(arts, Tail(order), seen \cup {key})
             ELSE Unique(arts, Tail(order), seen)

\* RankedPositions truncating before it deduplicates
RankedPositions_truncate_first(arts) == Unique(arts, Take(RelevanceOrder(arts), TopN), {})

\* the positions, in `articles`, of the items fetch_middle_east_news returns
RankedPositions(arts) == Take(Unique(arts, RelevanceOrder(arts), {}), TopN)

\* sort, deduplicate, truncate: the value fetch_middle_east_news returns
RankNews(arts) == Permute(arts, RankedPositions(arts))

----------------------------------------------------------------------------
(* Audio rendering and page rendering *)

\* generate_voice: True iff the speak script ran (no exception, no timeout),
\* exited 0 and left the output file
generate_voice(run) == ~run.raised /\ run.returncode = 0 /\ run.exists

\* what one run of the speak script can do: subprocess.run raises (a timeout, no
\* script) or returns with an exit code, and the output file is there afterwards or
\* is not; the folder of the run is new, so a file that is there was written
SpeakRuns == [raised : BOOLEAN, returncode : {0, 1}, exists : BOOLEAN]

\* the file name generate_all_voices records for a topic
AudioFile(topic) == "audio_" \o topic \o ".wav"

\* the files the run of the speak script left in the folder
Written(run, topic) == IF run.exists THEN {AudioFile(topic)} ELSE {}

\* RecordVoice with the entry written whatever generate_voice returned
RecordVoice_unconditional(files, topic, ok) ==
    [t \in DOMAIN files \cup {topic} |-> IF t = topic THEN AudioFile(topic) ELSE files[t]]

\* voice_files[topic] = "audio_<topic>.wav" if generate_voice(...) succeeded
RecordVoice(files, topic, ok) ==
    IF ok THEN [t \in DOMAIN files \cup {topic} |->
                    IF t = topic THEN AudioFile(topic) ELSE files[t]]
    ELSE files

\* generate_html: the playback controls of the template (a play button and an
\* <audio> element each); the template never reads voice_files
PlaybackControls(files) == [t \in Topics |-> AudioFile(t)]

\* generate_html: stock_total
stock_total(data) ==
    LET held == HeldOf(data)
        quotes == Get(data, "stocks", EmptyDict)
    IN  Sum([i \in 1..Len(held) |->
                Get(Get(quotes, Key(held[i].symbol), EmptyDict), "price", 0)
                * Get(held[i].info, "shares", 0)])

\* generate_html: news_items, the titles of middle_east_news[:3] cut to 80 characters
news_items(data) ==
    LET arts == Take(Get(Get(data, "news", EmptyDict), "middle_east", <<>>), 3)
    IN  IF Len(arts) = 0 THEN <<"No major news at this time">>
        ELSE [i \in 1..Len(arts) |-> Take(Get(arts[i], "title", ""), 80)]

\* bool(v) of a JSON value that is not an object
Truthy(doc) ==
    IF doc.t = "array" THEN Len(doc.items) > 0
    ELSE IF doc.t = "string" THEN doc.s # ""
    ELSE doc.v # 0

\* generate_html: the values .get or .items is called on
HtmlReceivers(data) ==
    LET portfolio_ == Get(data, "portfolio", EmptyDict)
        crypto_ == Get(data, "crypto", EmptyDict)
        held == Get(portfolio_, "crypto", EmptyDict)
        weather_ == Get(data, "weather", EmptyDict)
        doha_weather == Get(weather_, "doha", EmptyDict)
        al_udeid_weather == Get(weather_, "al_udeid", EmptyDict)
    IN  <<portfolio_, crypto_, weather_,
          Get(crypto_, "bitcoin", EmptyDict), Get(crypto_, "ethereum", EmptyDict),
          held, Get(held, "BTC", EmptyDict), Get(held, "ETH", EmptyDict),
          doha_weather, al_udeid_weather,
          Get(doha_weather, "current_weather", EmptyDict),
          Get(al_udeid_weather, "current_weather", EmptyDict),
          Get(data, "news", EmptyDict)>>
        \o Take(Get(Get(data, "news", EmptyDict), "middle_east", <<>>), 3)

\* generate_html: daily.get(...) if daily else [], called on a daily that is not a dict
DailyRaises(data) ==
    LET daily == Get(Get(Get(data, "weather", EmptyDict), "doha", EmptyDict), "daily", EmptyDict)
    IN  ~IsDict(daily) /\ Truthy(DocOf(daily))

RaisedHtml == [raised |-> TRUE, audio |-> <<>>, total |-> 0, news_items |-> <<>>]

\* generate_html(briefing_data, voice_files, output_dir): the parts of the page
\* that depend on the run, or the AttributeError of a .get on a value that is no dict
generate_html(data, files) ==
    IF \/ ~HoldingsReadable(data)
       \/ ~AllDicts([i \in 1..Len(HeldOf(data)) |-> HeldOf(data)[i].info])
       \/ ~AllDicts(QuoteReceivers(data))
       \/ ~AllDicts(HtmlReceivers(data))
       \/ DailyRaises(data)
    THEN RaisedHtml
    ELSE [raised |-> FALSE,
          audio |-> PlaybackControls(files),
          total |-> stock_total(data) + Get(Get(data, "portfolio", EmptyDict), "stocksCashUSD", 0),
          news_items |-> news_items(data)]

NoHtml == [raised |-> FALSE, audio |-> <<>>, total |-> 0, news_items |-> <<>>]

----------------------------------------------------------------------------
(* JSON *)

\* A JSON document is a tree of nodes.  An object keeps its keys in document order;
\* a number is written with repr() and read back by float() or int(), which return
\* the value that was written.
JsonNumber(x) == [t |-> "number", v |-> x]
JsonString(str) == [t |-> "string", s |-> str]
JsonArray(items) == [t |-> "array", items |-> items]
JsonObject(keys, at) == [t |-> "object", keys |-> keys, at |-> at]

\* the elements of a set, one after the other
RECURSIVE Listed(_)
Listed(S) ==
    IF S = {} THEN <<>>
    ELSE LET x == CHOOSE y \in S : TRUE IN <<x>> \o Listed(S \ {x})

\* The encoder chooses by the Python type of a value; the values of a BriefingRun
\* have the type their place says.  Under "daily" and "hourly" (the series the
\* weather request asks for) every name holds a list, of strings for "time" and of
\* numbers for every other name; the units hold strings.  Elsewhere the key says
\* the type: str, int or float, list of numbers, list of dicts, and dict for every
\* other key; a value that is not a dict at such a key is written as what it is.
StringFields ==
    {"error", "location_name", "title", "source", "description", "generated", "time",
     "timezone", "timezone_abbreviation"}
NumberFields ==
    {"price", "change_pct", "prev_close", "usd", "usd_24h_change", "usd_24h_vol",
     "temperature", "windspeed", "winddirection", "weathercode", "is_day", "interval",
     "latitude", "longitude", "elevation", "generationtime_ms", "utc_offset_seconds",
     "relevance", "shares", "amount", "stocksCashUSD"}
NumberListFields == {"prices_5d", "temperature_2m_max", "temperature_2m_min"}
DictListFields == {"middle_east"}
SeriesFields == {"daily", "hourly"}
UnitsFields == {"current_weather_units", "daily_units", "hourly_units"}

\* alphabetical order of the tickers
Tickers == <<"AAPL", "AMZN", "GOOGL", "META", "MSFT", "NVDA", "TSLA", "VOO">>
TickerRank(sym) == CHOOSE i \in 1..Len(Tickers) : Tickers[i] = sym

\* the document of a list of numbers and of a list of strings
json_numbers(v) == JsonArray([i \in 1..Len(v) |-> JsonNumber(v[i])])
json_strings(v) == JsonArray([i \in 1..Len(v) |-> JsonString(v[i])])

\* the document of the series of a forecast
json_series(v) ==
    JsonObject(Listed(Names(v)),
               [k \in Names(v) |->
                   IF k = "time" THEN json_strings(v[Key(k)]) ELSE json_numbers(v[Key(k)])])

\* the document of the units of a forecast
json_units(v) == JsonObject(Listed(Names(v)), [k \in Names(v) |-> JsonString(v[Key(k)])])

RECURSIVE json_value(_, _)
\* the document of the value held under a key
json_value(key, v) ==
    IF key \in StringFields THEN JsonString(v)
    ELSE IF key \in NumberFields THEN JsonNumber(v)
    ELSE IF key \in NumberListFields THEN json_numbers(v)
    ELSE IF key \in DictListFields
    THEN JsonArray([i \in 1..Len(v) |-> json_value("", v[i])])
    ELSE IF ~IsDict(v) THEN DocOf(v)
    ELSE IF key \in SeriesFields THEN json_series(v)
    ELSE IF key \in UnitsFields THEN json_units(v)
    ELSE JsonObject(Listed(Names(v)), [k \in Names(v) |-> json_value(k, v[Key(k)])])

\* the document of one holding
json_holding(holding) ==
    IF ~IsDict(holding.info) THEN DocOf(holding.info)
    ELSE JsonObject(Listed(Names(holding.info)),
                    [k \in Names(holding.info) |-> json_value(k, holding.info[Key(k)])])

\* json_holdings with sort_keys=True: the holdings in alphabetical order
json_holdings_sort_keys(held) ==
    IF ~IsHoldings(held) THEN DocOf(held[1])
    ELSE LET order == SortOrder([i \in 1..Len(held) |-> TickerRank(held[i].symbol)])
         IN  JsonObject([i \in 1..Len(held) |-> held[order[i]].symbol],
                        [sym \in {held[i].symbol : i \in 1..Len(held)} |->
                            LET i == CHOOSE j \in 1..Len(held) : held[j].symbol = sym
                            IN  json_holding(held[i])])

\* the document of portfolio["stocks"]: a dict from ticker to holding, its keys in
\* insertion order, or the value that is there instead of a dict
json_holdings(held) ==
    IF ~IsHoldings(held) THEN DocOf(held[1])
    ELSE JsonObject([i \in 1..Len(held) |-> held[i].symbol],
                    [sym \in {held[i].symbol : i \in 1..Len(held)} |->
                        LET i == CHOOSE j \in 1..Len(held) : held[j].symbol = sym
                        IN  json_holding(held[i])])

json_portfolio(pf) ==
    IF ~IsDict(pf) THEN DocOf(pf)
    ELSE JsonObject(Listed(Names(pf)),
                    [k \in Names(pf) |->
                        IF k = "stocks" THEN json_holdings(pf[k])
                        ELSE json_value(k, pf[Key(k)])])

\* json.dump(briefing_data, f, indent=2, default=str): every value of a BriefingRun is
\* a dict, a list, a str, an int or a float, so default is never called
json_dump(data) ==
    JsonObject(Listed(Names(data)),
               [k \in Names(data) |->
                   IF k = "portfolio" THEN json_portfolio(data[k])
                   ELSE json_value(k, data[Key(k)])])

\* the keys of an object, as a dict holds them
Keys(node) == {Key(node.keys[i]) : i \in 1..Len(node.keys)}

RECURSIVE json_node(_)
\* the Python value of a document: a number, a str, a list, a dict
json_node(node) ==
    CASE node.t = "number" -> node.v
      [] node.t = "string" -> node.s
      [] node.t = "array" -> [i \in 1..Len(node.items) |-> json_node(node.items[i])]
      [] node.t = "object" -> [k \in Keys(node) |-> json_node(node.at[KeyName(k)])]

RECURSIVE json_at(_, _)
\* the Python value of the document under a key, as the values of a BriefingRun are
\* written: where the key holds a dict, an object is the dict of its members and any
\* other document is Other of it.  json_at(key, json_value(key, v)) = v.
json_at(key, node) ==
    IF key \in StringFields \cup NumberFields \cup NumberListFields THEN json_node(node)
    ELSE IF key \in DictListFields
    THEN [i \in 1..Len(node.items) |-> json_at("", node.items[i])]
    ELSE IF node.t # "object" THEN Other(node)
    ELSE IF key \in SeriesFields \cup UnitsFields THEN json_node(node)
    ELSE [k \in Keys(node) |-> json_at(KeyName(k), node.at[KeyName(k)])]

\* one holding of a portfolio document
load_holding(sym, node) ==
    Holding(sym, IF node.t # "object" THEN Other(node)
                 ELSE [k \in Keys(node) |-> json_at(KeyName(k), node.at[KeyName(k)])])

\* the holdings of a portfolio document, in document order
load_holdings(node) ==
    IF node.t # "object" THEN OtherHoldings(node)
    ELSE [i \in 1..Len(node.keys) |-> load_holding(node.keys[i], node.at[node.keys[i]])]

\* the portfolio of a document
load_portfolio_node(node) ==
    IF node.t # "object" THEN Other(node)
    ELSE [k \in Keys(node) |->
             IF k = "stocks" THEN load_holdings(node.at[k])
             ELSE json_at(KeyName(k), node.at[KeyName(k)])]

\* json.load(f)
json_load(doc) ==
    [k \in Keys(doc) |->
        IF k = "portfolio" THEN load_portfolio_node(doc.at[k])
        ELSE json_at(KeyName(k), doc.at[KeyName(k)])]

----------------------------------------------------------------------------
(* main() *)

NoOut == [topic |-> "none", date |-> "", raised |-> FALSE, script |-> <<>>]

\* list(portfolio.get("stocks", {}).keys()): the symbols of the portfolio, in file
\* order
Symbols(pf) ==
    LET held == Get(pf, "stocks", <<>>) IN [i \in 1..Len(held) |-> held[i].symbol]

Log(op) == events' = Append(events, op)

\* output_dir.mkdir(parents=True, exist_ok=True): the folder is made, or mkdir raises
MakeOutputDir ==
    /\ pc = "start"
    /\ \E ok \in BOOLEAN :
        IF ok
        THEN /\ pc' = "load_portfolio"
             /\ Log("mkdir")
        ELSE /\ pc' = "crashed"
             /\ UNCHANGED events
    /\ UNCHANGED <<portfolio, stocks, crypto, weather, articles, middle_east_news, ranked, world,
                   failed, briefing_data, scripts, attempted, voice_files, html, disk, out, spoken>>

\* portfolio = load_portfolio(): the file is read, or open/json.load raises
LoadPortfolio ==
    /\ pc = "load_portfolio"
    /\ \E ok \in BOOLEAN :
        IF ok
        THEN /\ portfolio' = world.portfolio_file
             /\ pc' = "fetch_stocks"
             /\ Log("load_portfolio")
        ELSE /\ pc' = "crashed"
             /\ UNCHANGED <<portfolio, events>>
    /\ UNCHANGED <<stocks, crypto, weather, articles, middle_east_news, ranked, world, failed,
                   briefing_data, scripts, attempted, voice_files, html, disk, out, spoken>>

\* stocks = fetch_stock_data(list(portfolio.get("stocks", {}).keys())): .get raises
\* on a portfolio that is not a dict, .keys on holdings that are not a dict
FetchStockData ==
    /\ pc = "fetch_stocks"
    /\ IF IsDict(portfolio) /\ IsHoldings(Get(portfolio, "stocks", <<>>))
       THEN LET held == {Symbols(portfolio)[i] : i \in 1..Len(Symbols(portfolio))}
                fails == {sym \in held : ("stock:" \o sym) \in world.down}
            IN  /\ stocks' = fetch_stock_data(Symbols(portfolio), world.quotes, fails)
                /\ failed' = failed \cup {"stock:" \o sym : sym \in fails}
                /\ pc' = "fetch_crypto"
                /\ Log("fetch_stock_data")
       ELSE /\ pc' = "crashed"
            /\ UNCHANGED <<stocks, failed, events>>
    /\ UNCHANGED <<portfolio, crypto, weather, articles, middle_east_news, ranked, world,
                   briefing_data, scripts, attempted, voice_files, html, disk, out, spoken>>

\* crypto = fetch_crypto_data()
FetchCryptoData ==
    /\ pc = "fetch_crypto"
    /\ LET fails == "crypto" \in world.down
       IN  /\ crypto' = fetch_crypto_data(world.crypto, fails)
           /\ failed' = IF fails THEN failed \cup {"crypto"} ELSE failed
    /\ pc' = "fetch_weather"
    /\ Log("fetch_crypto_data")
    /\ UNCHANGED <<portfolio, stocks, weather, articles, middle_east_news, ranked, world,
                   briefing_data, scripts, attempted, voice_files, html, disk, out, spoken>>

\* weather = fetch_weather()
FetchWeather ==
    /\ pc = "fetch_weather"
    /\ LET fails == {key \in DOMAIN locations : ("weather:" \o key) \in world.down}
       IN  /\ weather' = fetch_weather(world.weather, fails)
           /\ failed' = failed \cup {"weather:" \o key :
                                        key \in FailedLocations(world.weather, fails)}
    /\ pc' = "fetch_news"
    /\ Log("fetch_weather")
    /\ UNCHANGED <<portfolio, stocks, crypto, articles, middle_east_news, ranked, world,
                   briefing_data, scripts, attempted, voice_files, html, disk, out, spoken>>

\* the feeds whose except branch runs: the request raised, or an item did
FailedFeeds(responses, fails) ==
    {k \in 1..Len(feeds) : ReadFeed(k, responses[k], k \in fails).raised}

FeedName(k) == "feed:" \o ToString(k)

\* middle_east_news = fetch_middle_east_news()
FetchMiddleEastNews ==
    /\ pc = "fetch_news"
    /\ LET fails == {k \in 1..Len(feeds) : FeedName(k) \in world.down}
       IN  /\ articles' = Collect(1, Responses(world), fails)
           /\ failed' = failed \cup {FeedName(k) : k \in FailedFeeds(Responses(world), fails)}
    /\ ranked' = RankedPositions(articles')
    /\ middle_east_news' = RankNews(articles')
    /\ pc' = "compile"
    /\ Log("fetch_middle_east_news")
    /\ UNCHANGED <<portfolio, stocks, crypto, weather, world, briefing_data, scripts,
                   attempted, voice_files, html, disk, out, spoken>>

\* briefing_data = {...}
Compile ==
    /\ pc = "compile"
    /\ briefing_data' = [portfolio |-> portfolio, stocks |-> stocks, crypto |-> crypto,
                         weather |-> weather,
                         news |-> [middle_east |-> middle_east_news],
                         generated |-> world.date]
    /\ pc' = "script"
    /\ Log("compile")
    /\ UNCHANGED <<portfolio, stocks, crypto, weather, articles, middle_east_news, ranked, world,
                   failed, scripts, attempted, voice_files, html, disk, out, spoken>>

\* the topic generate_all_voices is at
CurrentTopic == TopicOrder[Len(attempted) + 1]

\* generate_all_voices: <topic>_text = generate_<topic>_script(briefing_data)
SynthScript ==
    /\ pc = "script"
    /\ LET r == Narrate(CurrentTopic, briefing_data, world.date)
       IN  IF r.raised
           THEN /\ pc' = "crashed"
                /\ UNCHANGED <<scripts, events>>
           ELSE /\ scripts' = [t \in DOMAIN scripts \cup {CurrentTopic} |->
                                   IF t = CurrentTopic THEN r.script ELSE scripts[t]]
                /\ pc' = "voice"
                /\ Log("script:" \o CurrentTopic)
    /\ UNCHANGED <<portfolio, stocks, crypto, weather, articles, middle_east_news, ranked, world,
                   failed, briefing_data, attempted, voice_files, html, disk, out, spoken>>

\* generate_voice(<topic>_text, VOICES["<topic>"], <topic>_path) and what it returned
VoiceCall(topic, ok) ==
    [topic |-> topic, text |-> scripts[topic], voice |-> VOICES[topic],
     output |-> AudioFile(topic), ok |-> ok]

\* RenderVoice with generate_voice's exceptions uncaught: a raising run ends main()
RenderVoice_uncaught ==
    /\ pc = "voice"
    /\ \E run \in SpeakRuns :
        IF run.raised
        THEN /\ pc' = "crashed"
             /\ disk' = disk \cup Written(run, CurrentTopic)
             /\ UNCHANGED <<voice_files, attempted, spoken, events>>
        ELSE /\ voice_files' = RecordVoice(voice_files, CurrentTopic, generate_voice(run))
             /\ spoken' = Append(spoken, VoiceCall(CurrentTopic, generate_voice(run)))
             /\ disk' = disk \cup Written(run, CurrentTopic)
             /\ attempted' = Append(attempted, CurrentTopic)
             /\ pc' = IF Len(attempted') = Len(TopicOrder) THEN "render_html" ELSE "script"
             /\ Log("voice:" \o CurrentTopic)
    /\ UNCHANGED <<portfolio, stocks, crypto, weather, articles, middle_east_news, ranked, world,
                   failed, briefing_data, scripts, html, out>>

\* RenderVoice leaving the loop one topic early
RenderVoice_one_short ==
    /\ pc = "voice"
    /\ \E run \in SpeakRuns :
        /\ voice_files' = RecordVoice(voice_files, CurrentTopic, generate_voice(run))
        /\ spoken' = Append(spoken, VoiceCall(CurrentTopic, generate_voice(run)))
        /\ disk' = disk \cup Written(run, CurrentTopic)
    /\ attempted' = Append(attempted, CurrentTopic)
    /\ pc' = IF Len(attempted') >= Len(TopicOrder) - 1 THEN "render_html" ELSE "script"
    /\ Log("voice:" \o CurrentTopic)
    /\ UNCHANGED <<portfolio, stocks, crypto, weather, articles, middle_east_news, ranked, world,
                   failed, briefing_data, scripts, html, out>>

\* generate_all_voices: if generate_voice(text, VOICES[topic], path): voice_files[topic] = ...
RenderVoice ==
    /\ pc = "voice"
    /\ \E run \in SpeakRuns :
        /\ voice_files' = RecordVoice(voice_files, CurrentTopic, generate_voice(run))
        /\ spoken' = Append(spoken, VoiceCall(CurrentTopic, generate_voice(run)))
        /\ disk' = disk \cup Written(run, CurrentTopic)
    /\ attempted' = Append(attempted, CurrentTopic)
    /\ pc' = IF Len(attempted') = Len(TopicOrder) THEN "render_html" ELSE "script"
    /\ Log("voice:" \o CurrentTopic)
    /\ UNCHANGED <<portfolio, stocks, crypto, weather, articles, middle_east_news, ranked, world,
                   failed, briefing_data, scripts, html, out>>

\* html = generate_html(briefing_data, voice_files, output_dir)
GenerateHtml ==
    /\ pc = "render_html"
    /\ LET page == generate_html(briefing_data, voice_files)
       IN  IF page.raised
           THEN /\ pc' = "crashed"
                /\ UNCHANGED <<html, events>>
           ELSE /\ html' = page
                /\ pc' = "write_index"
                /\ Log("generate_html")
    /\ UNCHANGED <<portfolio, stocks, crypto, weather, articles, middle_east_news, ranked, world,
                   failed, briefing_data, scripts, attempted, voice_files, disk, out, spoken>>

\* what `with open(path, "w") as f: f.write(...)` can do: open raises and leaves
\* no file; open creates (or truncates) the file and the write raises; the file is
\* written
WriteOutcomes == {"open_raised", "write_raised", "written"}

\* with open(path, "w") as f: f.write(...)
WriteFile(at, file, next) ==
    /\ pc = at
    /\ \E outcome \in WriteOutcomes :
        CASE outcome = "written" ->
                /\ disk' = disk \cup {file}
                /\ pc' = next
                /\ Log("write:" \o file)
          [] outcome = "write_raised" ->
                /\ disk' = disk \cup {file}
                /\ pc' = "crashed"
                /\ UNCHANGED events
          [] outcome = "open_raised" ->
                /\ pc' = "crashed"
                /\ UNCHANGED <<disk, events>>
    /\ UNCHANGED <<portfolio, stocks, crypto, weather, articles, middle_east_news, ranked, world,
                   failed, briefing_data, scripts, attempted, voice_files, html, out, spoken>>

\* with open(output_dir / "index.html", "w") as f: f.write(html)
WriteIndex == WriteFile("write_index", "index.html", "write_pointer")

\* with open(OUTPUT_DIR / ".current_page", "w") as f: f.write(folder_name)
WritePointer == WriteFile("write_pointer", ".current_page", "write_json")

\* with open(output_dir / "data.json", "w") as f: json.dump(briefing_data, ...)
WriteJson == WriteFile("write_json", "data.json", "done")

----------------------------------------------------------------------------
(* The outside of one run *)

\* RSS elements
Elem(s) == [elem |-> TRUE, text |-> TRUE, s |-> s]
EmptyElem == [elem |-> TRUE, text |-> FALSE, s |-> ""]
NoElem == [elem |-> FALSE, text |-> FALSE, s |-> ""]
Item(title, description) == [title |-> title, description |-> description]

\* exactly PrefixLen characters
Stem == "Israel strikes Gaza as ceasefire talks stall in Ca"
StemUpper == "ISRAEL STRIKES GAZA AS CEASEFIRE TALKS STALL IN CA"

ItemCairo == Item(Elem(Stem \o "iro"), Elem("Talks continue."))
ItemCairoLoud == Item(Elem(StemUpper \o "IRO, HAMAS SAYS"), Elem("Iran and Hezbollah react."))
ItemOil == Item(Elem("Oil prices steady as Gulf exporters hold output"), NoElem)
ItemOilAgain == Item(Elem("Oil prices steady as Gulf exporters hold output"), Elem("Saudi view."))
ItemHouthi == Item(Elem("Houthi attack on Red Sea shipping draws US response"), NoElem)
ItemRiyadh == Item(Elem("Saudi and UAE ministers meet in Riyadh to discuss trade ties"), NoElem)
ItemAward == Item(Elem("Film 'Dunes' wins award"), Elem("Cinema."))
ItemWeather == Item(Elem("Rain expected in Doha"), NoElem)
ItemNoDescription == Item(Elem("Tehran talks resume"), EmptyElem)
ItemNoTitle == Item(NoElem, Elem("Israel"))

\* datetime.now().strftime("%A, %B %d") on two days
Today == "Friday, October 30"
Tomorrow == "Saturday, October 31"

\* the clock passes midnight between two statements of main(), or between two calls
Midnight ==
    /\ pc \notin {"done", "crashed"}
    /\ world.date = Today
    /\ world' = [world EXCEPT !.date = Tomorrow]
    /\ UNCHANGED <<pc, portfolio, stocks, crypto, weather, articles, middle_east_news, ranked,
                   failed, briefing_data, scripts, attempted, voice_files, html,
                   disk, events, out, spoken>>

\* what the services answer during the run of the pipeline, no request raising
MainWorld ==
    [date |-> Today,
     down |-> {},
     portfolio_file |->
        [stocks |-> <<Holding("NVDA", [shares |-> 10]), Holding("VOO", [shares |-> 5])>>,
         stocksCashUSD |-> 1000,
         crypto |-> [BTC |-> [amount |-> 1], ETH |-> [amount |-> 2]]],
     quotes |->
        [NVDA |-> [last_price |-> 94, previous_close |-> 100, closes |-> <<100, 94>>],
         VOO |-> [last_price |-> 197, previous_close |-> 200, closes |-> <<200, 197>>]],
     crypto |->
        [bitcoin |-> [usd |-> 61000, usd_24h_change |-> Num(-6)],
         ethereum |-> [usd |-> 3000, usd_24h_change |-> Num(-9) - 1]],
     weather |->
        [doha |->
            [current_weather |-> [temperature |-> Num(40), windspeed |-> Num(35), weathercode |-> 0],
             daily |-> [temperature_2m_max |-> <<Num(40), Num(41), Num(39), Num(35), Num(34)>>,
                        temperature_2m_min |-> <<Num(30), Num(31), Num(29), Num(28), Num(27)>>]],
         al_udeid |->
            [current_weather |-> [temperature |-> Num(41), windspeed |-> Num(26) + 1, weathercode |-> 1]]],
     status |-> <<200, 200, 200, 200>>,
     feeds |-> <<<<ItemCairo, ItemOil>>,
                 <<ItemHouthi, ItemNoDescription, ItemRiyadh>>,
                 <<ItemCairoLoud>>,
                 <<ItemNoTitle, ItemWeather>>>>]

\* the state main() starts in
InitRun(w) ==
    /\ pc = "start"
    /\ world = w
    /\ portfolio = EmptyDict
    /\ stocks = EmptyDict
    /\ crypto = EmptyDict
    /\ weather = EmptyDict
    /\ articles = <<>>
    /\ middle_east_news = <<>>
    /\ ranked = <<>>
    /\ failed = {}
    /\ briefing_data = EmptyDict
    /\ scripts = EmptyDict
    /\ attempted = <<>>
    /\ voice_files = EmptyDict
    /\ spoken = <<>>
    /\ html = NoHtml
    /\ disk = {}
    /\ events = <<>>
    /\ out = NoOut

\* the requests of the run in MainWorld
Requests ==
    {"stock:" \o Symbols(MainWorld.portfolio_file)[i] :
        i \in 1..Len(Symbols(MainWorld.portfolio_file))}
    \cup {"crypto"}
    \cup {"weather:" \o key : key \in DOMAIN locations}
    \cup {FeedName(k) : k \in 1..Len(feeds)}

\* the requests that raise: none, any one, those of both locations, all of them
Outages ==
    {{}} \cup {{r} : r \in Requests} \cup {{"weather:" \o key : key \in DOMAIN locations}}
    \cup {Requests}

\* a service or the portfolio file holding a JSON list, or a holding that is a
\* number, where a dict is read
Malformed ==
    {[MainWorld EXCEPT !.weather.doha = Other(JsonArray(<<>>))],
     [MainWorld EXCEPT !.weather.al_udeid = Other(JsonArray(<<>>))],
     [MainWorld EXCEPT !.crypto = Other(JsonArray(<<>>))],
     [MainWorld EXCEPT !.portfolio_file = Other(JsonArray(<<>>))],
     [MainWorld EXCEPT !.portfolio_file.crypto = Other(JsonArray(<<>>))],
     [MainWorld EXCEPT !.portfolio_file.crypto.BTC = Other(JsonArray(<<>>))],
     [MainWorld EXCEPT !.portfolio_file.stocks = OtherHoldings(JsonArray(<<>>))],
     [MainWorld EXCEPT !.portfolio_file.stocks[1] = Holding("NVDA", Other(JsonNumber(10)))]}

\* a feed answering with a status other than 200
Refused == {[MainWorld EXCEPT !.status[k] = 404] : k \in 1..Len(feeds)}

\* the worlds main() is run in
RunWorlds == {[MainWorld EXCEPT !.down = d] : d \in Outages} \cup Malformed \cup Refused

Init == \E w \in RunWorlds : InitRun(w)

Next ==
    \/ MakeOutputDir
    \/ LoadPortfolio
    \/ FetchStockData
    \/ FetchCryptoData
    \/ FetchWeather
    \/ FetchMiddleEastNews
    \/ Compile
    \/ SynthScript
    \/ RenderVoice
    \/ GenerateHtml
    \/ WriteIndex
    \/ WritePointer
    \/ WriteJson
    \/ Midnight

Spec == Init /\ [][Next]_vars

----------------------------------------------------------------------------
(* The narration functions on BriefingRun snapshots *)

\* largest percent change of the snapshots, and most holdings of a portfolio
MaxChange == 7
MaxHoldings == 3

\* an optional value: <<>> (absent) or <<v>>
Absent == <<>>
Present(v) == <<v>>

\* the dict holding the optional entries that are present
Dict(keys, opt) == [k \in {x \in keys : Len(opt[x]) = 1} |-> opt[k][1]]

\* a BriefingRun with the given optional top-level sections
Snapshot(p, s, c, w, n) ==
    Dict({"portfolio", "stocks", "crypto", "weather", "news"},
         [portfolio |-> p, stocks |-> s, crypto |-> c, weather |-> w, news |-> n])

FullQuote(price, change) ==
    [price |-> price, change_pct |-> Float(change), prev_close |-> price,
     prices_5d |-> <<price>>]

NormalPortfolio == MainWorld.portfolio_file
NormalStocks == [NVDA |-> FullQuote(94, Num(-6)), VOO |-> FullQuote(197, Num(-2) + 1)]
NormalCrypto == MainWorld.crypto
NormalWeather == fetch_weather(MainWorld.weather, {})
NormalNews == [middle_east |-> RankNews(Collect(1, Responses(MainWorld), {}))]

\* a Doha observation with the given daily highs and nothing else
DohaHighs(highs) == [doha |-> [daily |-> [temperature_2m_max |-> highs]]]

\* sections that are missing, empty or zero-valued, and one normal value each
PortfolioOptions ==
    {Absent, Present(EmptyDict), Present([stocks |-> <<>>]), Present(NormalPortfolio)}
StocksOptions ==
    {Absent, Present(EmptyDict), Present([VOO |-> FullQuote(197, Num(-2) + 1)]),
     Present([NVDA |-> QuoteError, VOO |-> EmptyDict]), Present(NormalStocks)}
CryptoOptions ==
    {Absent, Present(EmptyDict), Present([bitcoin |-> [usd |-> 61000, usd_24h_change |-> Num(-6)]]),
     Present([bitcoin |-> EmptyDict, ethereum |-> [usd |-> 3000, usd_24h_change |-> Num(4)]]),
     Present(NormalCrypto)}
WeatherOptions ==
    {Absent, Present(EmptyDict), Present([doha |-> EmptyDict]),
     Present([doha |-> [current_weather |-> EmptyDict, daily |-> EmptyDict]]),
     Present([al_udeid |-> [current_weather |-> [windspeed |-> Num(20)]]]),
     Present(DohaHighs(<<>>)), Present(DohaHighs(<<Num(31)>>)),
     Present(DohaHighs(<<Num(31), Num(26), Num(27)>>)),
     Present(DohaHighs(<<Num(20), Num(21), Num(22), Num(30)>>)),
     Present(NormalWeather)}
NewsOptions ==
    {Absent, Present(EmptyDict), Present([middle_east |-> <<>>]), Present(NormalNews)}


\* a crypto quote with an optional price and an optional 24h change
CoinQuote(price, change) ==
    Dict({"usd", "usd_24h_change"}, [usd |-> price, usd_24h_change |-> change])

Changes == Num(0 - MaxChange)..Num(MaxChange)
ChangeOptions == {Absent} \cup {Present(x) : x \in Changes}

\* a snapshot with the given Bitcoin price and the given changes of the two coins
CryptoSnapshot(price, b, e) ==
    Snapshot(Present(NormalPortfolio), Present(NormalStocks),
             Present([bitcoin |-> CoinQuote(Present(price), b),
                      ethereum |-> CoinQuote(Present(3000), e)]),
             Present(NormalWeather), Present(NormalNews))

\* the tickers a portfolio of the snapshots holds, in file order
HeldSymbols == <<"NVDA", "VOO", "TSLA", "AMZN", "AAPL", "MSFT">>

\* changes around the thresholds of the summary, and no quote at all
HoldingChanges ==
    {Absent} \cup {Present(x) : x \in {Num(-7), Num(-3) - 1, Num(-3), Num(-2), -1, 0,
                                       Num(1), Num(1) + 1, Num(4), Num(7) + 1}}

\* a portfolio of n holdings and the quotes of those that have one
Holdings(n) == [stocks |-> [i \in 1..n |-> Holding(HeldSymbols[i], [shares |-> 1])]]
QuotesOf(n, ch) ==
    [sym \in {HeldSymbols[i] : i \in {j \in 1..n : Len(ch[j]) = 1}} |->
        LET i == CHOOSE j \in 1..n : HeldSymbols[j] = sym
        IN  FullQuote(100, ch[i][1])]

\* a snapshot of a portfolio of n holdings with the given changes
SummarySnapshot(n, ch) ==
    Snapshot(Present(Holdings(n)), Present(QuotesOf(n, ch)), Present(NormalCrypto),
             Present(NormalWeather), Present(NormalNews))

\* the holdings of the portfolio in the order of movers after movers.sort
SortedHoldings(data) ==
    LET held == data.portfolio.stocks
        movers == Movers(data)
    IN  Permute(held, SortOrder(FloatRanks([i \in 1..Len(movers) |-> movers[i].change])))

\* CallNarration with the summary and the stocks narration sorting the holdings of the
\* snapshot instead of a list of their own
CallNarration_sorting_in_place(topic) ==
    /\ pc = "call"
    /\ LET r == Narrate(topic, briefing_data, world.date)
       IN  out' = [topic |-> topic, date |-> world.date, raised |-> r.raised,
                   script |-> r.script]
    /\ briefing_data' =
            IF topic \in {"summary", "stocks"} /\ "portfolio" \in DOMAIN briefing_data
               /\ "stocks" \in DOMAIN briefing_data.portfolio
            THEN [briefing_data EXCEPT !.portfolio.stocks = SortedHoldings(briefing_data)]
            ELSE briefing_data
    /\ UNCHANGED <<pc, portfolio, stocks, crypto, weather, articles, middle_east_news, ranked,
                   world, failed, scripts, attempted, voice_files, html,
                   disk, events, spoken>>

\* a call of one narration function on the snapshot; out keeps what it returned and
\* the date datetime.now() showed
CallNarration(topic) ==
    /\ pc = "call"
    /\ LET r == Narrate(topic, briefing_data, world.date)
       IN  out' = [topic |-> topic, date |-> world.date, raised |-> r.raised,
                   script |-> r.script]
    /\ UNCHANGED <<pc, portfolio, stocks, crypto, weather, articles, middle_east_news, ranked,
                   world, failed, briefing_data, scripts, attempted, voice_files, html,
                   disk, events, spoken>>

\* the narration functions are called on the snapshot
InitCall(snapshot) ==
    /\ pc = "call"
    /\ world = MainWorld
    /\ briefing_data = snapshot
    /\ portfolio = EmptyDict
    /\ stocks = EmptyDict
    /\ crypto = EmptyDict
    /\ weather = EmptyDict
    /\ articles = <<>>
    /\ middle_east_news = <<>>
    /\ ranked = <<>>
    /\ failed = {}
    /\ scripts = EmptyDict
    /\ attempted = <<>>
    /\ voice_files = EmptyDict
    /\ spoken = <<>>
    /\ html = NoHtml
    /\ disk = {}
    /\ events = <<>>
    /\ out = NoOut

InitNarr ==
    \E p \in PortfolioOptions, s \in StocksOptions, c \in CryptoOptions,
       w \in WeatherOptions, n \in NewsOptions : InitCall(Snapshot(p, s, c, w, n))
NextNarr == \E topic \in Topics : CallNarration(topic)
SpecNarr == InitNarr /\ [][NextNarr]_vars

InitCrypto ==
    \E price \in {60000, 60001}, b \in ChangeOptions, e \in ChangeOptions :
        InitCall(CryptoSnapshot(price, b, e))
NextCrypto == CallNarration("crypto")
SpecCrypto == InitCrypto /\ [][NextCrypto]_vars

\* quotes of the stocks narration: no quote, a quote without change, and changes
\* around the thresholds
NvdaOptions ==
    {Absent, Present(EmptyDict)}
    \cup {Present(FullQuote(100, x)) : x \in {Num(-6), Num(-2) - 1, Num(-2), 0, Num(2), Num(2) + 1}}
VooOptions ==
    {Absent, Present(EmptyDict)}
    \cup {Present(FullQuote(100, x)) : x \in {Num(-1) - 1, Num(-1), Num(1), Num(1) + 1}}
GooglOptions ==
    {Absent} \cup {Present(FullQuote(100, x)) : x \in {Num(-6), Num(-2), 0, Num(2) + 1, Num(7)}}
MetaOptions ==
    {Absent, Present(QuoteError)} \cup {Present(FullQuote(100, x)) : x \in {Num(-2) - 1, Num(3)}}

\* a snapshot with the given quotes
StocksSnapshot(nvda, voo, googl, meta) ==
    Snapshot(Present(NormalPortfolio),
             Present(Dict({"NVDA", "VOO", "GOOGL", "META"},
                          [NVDA |-> nvda, VOO |-> voo, GOOGL |-> googl, META |-> meta])),
             Present(NormalCrypto), Present(NormalWeather), Present(NormalNews))

InitStocks ==
    \E nvda \in NvdaOptions, voo \in VooOptions, googl \in GooglOptions, meta \in MetaOptions :
        InitCall(StocksSnapshot(nvda, voo, googl, meta))
NextStocks == CallNarration("stocks")
SpecStocks == InitStocks /\ [][NextStocks]_vars

\* most daily highs of a forecast of the snapshots
MaxHighs == 8

\* current temperatures around the band edges, and none
DohaTempOptions ==
    {Absent} \cup {Present(x) : x \in {Num(14), Num(15) - 1, Num(15), Num(22) - 1, Num(22),
                                       Num(30) - 1, Num(30), Num(38) - 1, Num(38), Num(40)}}
DohaWindOptions == {Absent, Present(Num(10)), Present(Num(35))}
UdeidTempOptions == {Absent, Present(Num(40))}
\* wind speeds around the thresholds, and none
UdeidWindOptions ==
    {Absent} \cup {Present(x) : x \in {Num(15), Num(15) + 1, Num(25), Num(25) + 1, Num(30),
                                       Num(30) + 1, Num(35)}}
HighValues == {Num(26), Num(30), Num(35)}

\* current_weather of a location
Observation(temp, wind) ==
    Dict({"temperature", "windspeed"}, [temperature |-> temp, windspeed |-> wind])

\* a snapshot with the given observations of Doha and Al Udeid and the given highs
WeatherSnapshot(dt, dw, ut, uw, highs) ==
    Snapshot(Present(NormalPortfolio), Present(NormalStocks), Present(NormalCrypto),
             Present([doha |-> [current_weather |-> Observation(dt, dw),
                                daily |-> [temperature_2m_max |-> highs]],
                      al_udeid |-> [current_weather |-> Observation(ut, uw)]]),
             Present(NormalNews))

InitObservations ==
    \E dt \in DohaTempOptions, dw \in DohaWindOptions, ut \in UdeidTempOptions,
       uw \in UdeidWindOptions :
        InitCall(WeatherSnapshot(dt, dw, ut, uw, <<Num(31), Num(26), Num(27)>>))
InitHighs ==
    \E n \in 0..MaxHighs : \E highs \in [1..n -> HighValues] :
        InitCall(WeatherSnapshot(Present(Num(40)), Absent, Absent, Present(Num(35)), highs))
InitWeather == InitObservations \/ InitHighs
NextWeather == CallNarration("weather")
SpecWeather == InitWeather /\ [][NextWeather]_vars

\* headlines of the news narration: some with a context keyword, two with a tension
\* keyword, two that put "red" and "sea" side by side, and some with words that are
\* no keyword ("drone", "Hamas", "Rain")
HeadlinePool ==
    <<"GAZA aid convoy reaches Rafah", "Iran signals new talks",
      "Border tensions escalating, officials say", "Markets close in the red",
      "Sea lanes reopen after storm", "Houthi drone intercepted",
      "Saudi budget approved", "MISSILE test reported",
      "Rain expected in Doha", "UAE hosts summit",
      "Israel cabinet meets", "Hamas delegation arrives">>

\* the articles collected for the headlines of the pool
PoolArticles ==
    [i \in 1..Len(HeadlinePool) |-> Article(Item(Elem(HeadlinePool[i]), NoElem), feeds[1])]

\* the news list holding the picked headlines of the pool, in the order of the pool
Headlines(picks) ==
    LET order == SelectSeq([i \in 1..Len(HeadlinePool) |-> i], LAMBDA i : i \in picks)
    IN  [k \in 1..Len(order) |-> PoolArticles[order[k]]]

\* a snapshot with the given news section
NewsSnapshot(news) ==
    Snapshot(Present(NormalPortfolio), Present(NormalStocks), Present(NormalCrypto),
             Present(NormalWeather), news)

InitNewsScript ==
    \/ \E news \in NewsOptions : InitCall(NewsSnapshot(news))
    \/ \E picks \in SUBSET (1..Len(HeadlinePool)) :
          InitCall(NewsSnapshot(Present([middle_east |-> Headlines(picks)])))
NextNewsScript == CallNarration("news")
SpecNewsScript == InitNewsScript /\ [][NextNewsScript]_vars

\* generate_summary_script on snapshots with the given changes of the two coins
InitMainStory == InitCrypto
NextMainStory == CallNarration("summary")
SpecMainStory == InitMainStory /\ [][NextMainStory]_vars

InitSummary ==
    \E n \in 0..MaxHoldings : \E ch \in [1..n -> HoldingChanges] :
        InitCall(SummarySnapshot(n, ch))
NextSummary == CallNarration("summary")
SpecSummary == InitSummary /\ [][NextSummary]_vars

\* portfolios whose holdings tie
TiedChanges == {Absent, Present(Num(-7)), Present(Num(-2))}
InitTies == \E ch \in [1..3 -> TiedChanges] : InitCall(SummarySnapshot(3, ch))

\* the briefing_data main() compiles in a world, every request answered
Compiled(w) ==
    Snapshot(Present(w.portfolio_file), Present(NormalStocks), Present(w.crypto),
             Present(fetch_weather(w.weather, {})), Present(NormalNews))

\* snapshots with the sections of the market missing, empty and normal, with those of
\* crypto, weather and news missing, empty and normal, with a JSON value that is no
\* dict where a dict is read, and portfolios whose holdings tie
InitReload ==
    \/ \E p \in PortfolioOptions, s \in StocksOptions, c \in CryptoOptions :
            InitCall(Snapshot(p, s, c, Present(NormalWeather), Present(NormalNews)))
    \/ \E c \in CryptoOptions, w \in WeatherOptions, n \in NewsOptions :
            InitCall(Snapshot(Present(NormalPortfolio), Present(NormalStocks), c, w, n))
    \/ \E w \in Malformed : InitCall(Compiled(w))
    \/ \E item \in {Other(JsonNumber(5)), Other(JsonArray(<<>>))} :
            InitCall(NewsSnapshot(Present([middle_east |-> <<PoolArticles[1], item>>])))
    \/ InitTies

NextReload ==
    \/ \E topic \in Topics : CallNarration(topic)
    \/ Midnight
SpecReload == InitReload /\ [][NextReload]_vars

\* voice_files = generate_all_voices(briefing_data, output_dir), entered after the
\* narration calls made so far
CallAllVoices ==
    /\ pc = "call"
    /\ pc' = "script"
    /\ UNCHANGED <<portfolio, stocks, crypto, weather, articles, middle_east_news, ranked,
                   world, failed, briefing_data, scripts, attempted, voice_files, html,
                   disk, events, out, spoken>>

\* narration calls in any order on a snapshot, then generate_all_voices and generate_html
InitFrame ==
    \E a \in {Present(Num(-7)), Present(Num(-2))} :
        InitCall(SummarySnapshot(3, <<Present(Num(-2)), a, Present(Num(-7))>>))
NextFrame ==
    \/ \E topic \in Topics : CallNarration(topic)
    \/ CallAllVoices
    \/ SynthScript
    \/ RenderVoice
    \/ GenerateHtml
    \/ Midnight
SpecFrame == InitFrame /\ [][NextFrame]_vars

----------------------------------------------------------------------------
(* fetch_middle_east_news on the answers of the four feeds *)

\* more items than one feed is read for
LongFeed == [i \in 1..ItemsPerFeed |-> ItemWeather] \o <<ItemRiyadh>>

\* what each of the four feeds may answer
FeedAnswers ==
    <<{<<ItemCairo, ItemOil>>, <<ItemOil, ItemAward, ItemCairoLoud>>, <<>>},
      {<<ItemHouthi, ItemNoDescription, ItemRiyadh>>, <<ItemHouthi, ItemRiyadh>>,
       <<ItemCairoLoud, ItemWeather>>},
      {<<ItemCairoLoud>>, <<ItemCairo, ItemAward>>, <<ItemWeather, ItemOilAgain>>},
      {<<ItemNoTitle, ItemWeather>>, <<ItemOil, ItemRiyadh>>, LongFeed}>>

\* the status of the answers: all 200, or the first feed's 404
FeedStatus == {<<200, 200, 200, 200>>, <<404, 200, 200, 200>>}

\* the answers of the feeds, their status, and the feeds whose request raises
NewsWorlds ==
    {[MainWorld EXCEPT !.feeds = <<a, b, c, d>>, !.status = s,
                       !.down = {FeedName(k) : k \in f}] :
        a \in FeedAnswers[1], b \in FeedAnswers[2], c \in FeedAnswers[3], d \in FeedAnswers[4],
        s \in FeedStatus, f \in SUBSET (1..Len(feeds))}

\* main() about to call fetch_middle_east_news, every earlier request answered
InitNews ==
    /\ pc = "fetch_news"
    /\ world \in NewsWorlds
    /\ portfolio = MainWorld.portfolio_file
    /\ stocks = fetch_stock_data(Symbols(MainWorld.portfolio_file), MainWorld.quotes, {})
    /\ crypto = MainWorld.crypto
    /\ weather = NormalWeather
    /\ articles = <<>>
    /\ middle_east_news = <<>>
    /\ ranked = <<>>
    /\ failed = {}
    /\ briefing_data = EmptyDict
    /\ scripts = EmptyDict
    /\ attempted = <<>>
    /\ voice_files = EmptyDict
    /\ spoken = <<>>
    /\ html = NoHtml
    /\ disk = {}
    /\ events = <<"mkdir", "load_portfolio", "fetch_stock_data", "fetch_crypto_data",
                  "fetch_weather">>
    /\ out = NoOut

NextNews == FetchMiddleEastNews
SpecNews == InitNews /\ [][NextNews]_vars

\* main() from fetch_middle_east_news to the summary script of generate_all_voices
InitTeaser == InitNews
NextTeaser == FetchMiddleEastNews \/ Compile \/ SynthScript \/ Midnight
SpecTeaser == InitTeaser /\ [][NextTeaser]_vars

----------------------------------------------------------------------------
(* Properties *)

\* the phrase is one of the phrases of the script
Has(script, phrase) == \E i \in 1..Len(script) : script[i] = phrase

\* how many of the phrases the script holds, counting repetitions
Count(script, phrases) == Cardinality({i \in 1..Len(script) : script[i] \in phrases})

\* the snapshot read without the narration code: its sections and values
DataPortfolio == IF "portfolio" \in DOMAIN briefing_data THEN briefing_data.portfolio ELSE EmptyDict
DataStocks == IF "stocks" \in DOMAIN briefing_data THEN briefing_data.stocks ELSE EmptyDict
DataCrypto == IF "crypto" \in DOMAIN briefing_data THEN briefing_data.crypto ELSE EmptyDict
DataWeather == IF "weather" \in DOMAIN briefing_data THEN briefing_data.weather ELSE EmptyDict
DataNews ==
    IF "news" \in DOMAIN briefing_data /\ "middle_east" \in DOMAIN briefing_data.news
    THEN briefing_data.news.middle_east ELSE <<>>
DataHeld == IF "stocks" \in DOMAIN DataPortfolio THEN DataPortfolio.stocks ELSE <<>>
\* the percent change of the i-th holding, 0 when it has no quote
DataHeldChange(i) ==
    LET sym == Key(DataHeld[i].symbol)
    IN  IF sym \in DOMAIN DataStocks /\ "change_pct" \in DOMAIN DataStocks[sym]
        THEN Fixed(DataStocks[sym].change_pct) ELSE 0
\* the 24h change of a coin, 0 when it is not quoted
DataCoinChange(coin) ==
    IF coin \in DOMAIN DataCrypto /\ "usd_24h_change" \in DOMAIN DataCrypto[coin]
    THEN DataCrypto[coin].usd_24h_change ELSE 0
DataDohaHighs ==
    IF "doha" \in DOMAIN DataWeather /\ "daily" \in DOMAIN DataWeather.doha
       /\ "temperature_2m_max" \in DOMAIN DataWeather.doha.daily
    THEN DataWeather.doha.daily.temperature_2m_max ELSE <<>>

\* C1: on every snapshot with missing, empty or zero-valued inputs each of the five
\* narration functions returns a text and raises nothing, and the text is built from
\* the default phrases: the quiet-day phrase for no news, the mixed framing for no
\* holdings, the quiet band and the lockstep sentence for no crypto quotes, 20 degrees
\* and calm wind for no weather, the bare opening and closing for no stock quotes.
C1_NarrationNeverRaises ==
    out.topic # "none" =>
        /\ ~out.raised
        /\ Len(out.script) >= 1
        /\ (out.topic = "news" /\ Len(DataNews) = 0) => out.script = <<QuietDay>>
        /\ (out.topic = "summary" /\ Len(DataHeld) = 0) => Has(out.script, MixedDay)
        /\ (out.topic = "summary" /\ DOMAIN DataWeather = {}) =>
                out.script[2] = "It's 20 degrees in Doha right now. "
        /\ (out.topic = "crypto" /\ DOMAIN DataCrypto = {}) =>
                Has(out.script, Quiet) /\ Has(out.script, Lockstep)
        /\ (out.topic = "weather" /\ DOMAIN DataWeather = {}) =>
                /\ out.script[1] = "Doha right now: 20 degrees. "
                /\ Has(out.script, "Calm conditions at the base. ")
        /\ (out.topic = "stocks" /\ DOMAIN DataStocks = {}) => Len(out.script) = 2

\* the summary was narrated for a snapshot with no holdings, no weather and no news
C1_Witness ==
    /\ out.topic = "summary"
    /\ Len(DataHeld) = 0
    /\ DOMAIN DataWeather = {}
    /\ Len(DataNews) = 0
    /\ ~out.raised
    /\ Len(out.script) = 4

\* C6, as claimed: at a Bitcoin change of exactly -5.0 the crypto narration is in the
\* significant-pullback band and not in the slight-pullback band.
C6_Claimed_MinusFiveSignificant ==
    (out.topic = "crypto" /\ DataCoinChange("bitcoin") = Num(-5)) =>
        Has(out.script, SignificantPullback) /\ ~Has(out.script, SlightPullback)

BandPhrases == {SignificantPullback, SlightPullback, Rally, Quiet}

\* C6, amended: the crypto narration holds exactly one of the four band phrases:
\* significant pullback iff the Bitcoin change is below -5, slight pullback iff it is
\* in [-5, -2), rally iff it is above +5, quiet iff it is in [-2, +5]; so exactly
\* -5.0 is a slight pullback.
C6_BandSelection ==
    out.topic = "crypto" =>
        LET b == DataCoinChange("bitcoin")
        IN  /\ Count(out.script, BandPhrases) = 1
            /\ Has(out.script, SignificantPullback) <=> b < Num(-5)
            /\ Has(out.script, SlightPullback) <=> (Num(-5) <= b /\ b < Num(-2))
            /\ Has(out.script, Rally) <=> b > Num(5)
            /\ Has(out.script, Quiet) <=> (Num(-2) <= b /\ b <= Num(5))
            /\ (b = Num(-5)) => Has(out.script, SlightPullback)

\* the crypto narration of a Bitcoin change of exactly -5.0
C6_Witness ==
    /\ out.topic = "crypto"
    /\ DataCoinChange("bitcoin") = Num(-5)
    /\ Has(out.script, SlightPullback)

ComparisonPhrases == {Lockstep, Underperforming, Outperforming}

\* C7, as claimed: exactly one comparison sentence for every pair of changes: lockstep
\* when they differ by at most 2 points, else under- or outperforming by the sign.
C7_Claimed_AlwaysOneComparison ==
    out.topic = "crypto" =>
        LET b == DataCoinChange("bitcoin")
            e == DataCoinChange("ethereum")
        IN  /\ Count(out.script, ComparisonPhrases) = 1
            /\ Has(out.script, Lockstep) <=> Abs(b - e) <= Num(2)
            /\ Has(out.script, Underperforming) <=> (Abs(b - e) > Num(2) /\ e < b)
            /\ Has(out.script, Outperforming) <=> (Abs(b - e) > Num(2) /\ e > b)

\* C7, amended: at most one comparison sentence: lockstep iff the changes differ by
\* less than 2 points, underperforming iff Ethereum is more than 3 points below
\* Bitcoin, outperforming iff it is more than 3 points above; no comparison sentence
\* when they differ by 2 to 3 points.
C7_ComparisonSentence ==
    out.topic = "crypto" =>
        LET b == DataCoinChange("bitcoin")
            e == DataCoinChange("ethereum")
        IN  /\ Count(out.script, ComparisonPhrases) <= 1
            /\ Has(out.script, Lockstep) <=> Abs(b - e) < Num(2)
            /\ Has(out.script, Underperforming) <=> e < b - Num(3)
            /\ Has(out.script, Outperforming) <=> e > b + Num(3)
            /\ (Count(out.script, ComparisonPhrases) = 0) <=>
                    (Num(2) <= Abs(b - e) /\ Abs(b - e) <= Num(3))

\* the crypto narration of changes exactly 3 points apart: no comparison sentence
C7_Witness ==
    /\ out.topic = "crypto"
    /\ DataCoinChange("ethereum") = DataCoinChange("bitcoin") - Num(3)
    /\ Count(out.script, ComparisonPhrases) = 0

FramingPhrases == {RedDay, GreenDay, MixedDay}

\* the sum of the changes of the holdings
DataChangeSum == Sum([i \in 1..Len(DataHeld) |-> DataHeldChange(i)])

\* C10: the summary holds exactly one market framing sentence: red iff the mean change
\* of the held stocks is below -2, green iff it is above +1, mixed otherwise; holdings
\* all at 0 and an empty portfolio are mixed.
C10_MarketFraming ==
    out.topic = "summary" =>
        LET n == Len(DataHeld)
            red == n > 0 /\ DataChangeSum < Num(-2) * n
            green == n > 0 /\ DataChangeSum > Num(1) * n
        IN  /\ ~out.raised
            /\ Count(out.script, FramingPhrases) = 1
            /\ Has(out.script, RedDay) <=> red
            /\ Has(out.script, GreenDay) <=> green
            /\ Has(out.script, MixedDay) <=> (~red /\ ~green)
            /\ (\A i \in 1..n : DataHeldChange(i) = 0) => Has(out.script, MixedDay)

\* the summary of a portfolio of at least two holdings, all quoted at 0
C10_Witness ==
    /\ out.topic = "summary"
    /\ Len(DataHeld) >= 2
    /\ \A i \in 1..Len(DataHeld) :
            DataHeld[i].symbol \in Names(DataStocks) /\ DataHeldChange(i) = 0
    /\ Has(out.script, MixedDay)

AcquisitionOps == {"mkdir", "load_portfolio", "fetch_stock_data", "fetch_crypto_data",
                   "fetch_weather", "fetch_middle_east_news", "compile"}
ScriptOps == {"script:" \o t : t \in Topics}
VoiceOps == {"voice:" \o t : t \in Topics}
RenderOps == {"generate_html"}
PersistOps == {"write:index.html", "write:.current_page", "write:data.json"}

Done(op) == \E i \in 1..Len(events) : events[i] = op
LastOp == IF Len(events) = 0 THEN "none" ELSE events[Len(events)]

\* main() is past generate_all_voices
PastAudio == pc \in {"render_html", "write_index", "write_pointer", "write_json", "done"}
\* main() is past generate_html
PastRender == pc \in {"write_index", "write_pointer", "write_json", "done"}
\* main() is past the four fetches
PastAcquisition == pc \in {"compile", "script", "voice"} \/ PastAudio

\* C2: whatever generate_voice does for a topic (a raised exception or timeout, a
\* non-zero exit, no output file), the next topics are still attempted, in order, the
\* run does not end in the audio step, and the page is rendered and can be written:
\* past the audio stage all five topics were attempted, whichever of them failed.
C2_VoiceFailuresDoNotBlock ==
    /\ \A k \in 1..Len(attempted) : attempted[k] = TopicOrder[k]
    /\ PastAudio => Len(attempted) = Len(TopicOrder)
    /\ PastRender => (Done("generate_html") /\ DOMAIN html.audio # {})
    /\ pc = "done" => "index.html" \in disk
    /\ pc = "crashed" => LastOp \notin ScriptOps
    /\ DOMAIN voice_files \subseteq Topics

\* a complete run in which the audio of all five topics failed
C2_Witness ==
    /\ pc = "done"
    /\ DOMAIN voice_files = {}
    /\ Len(attempted) = 5
    /\ "index.html" \in disk

\* the articles a feed's answer holds, one per item with a title; an answer with a
\* status other than 200 holds none
AnswerArticles(k) ==
    LET items == IF world.status[k] = 200 THEN Take(world.feeds[k], ItemsPerFeed) ELSE <<>>
        titled == SelectSeq(items, LAMBDA it : it.title.elem)
    IN  [i \in 1..Len(titled) |-> Article(titled[i], feeds[k])]

RECURSIVE ArticlesOfWorkingFeeds(_)
ArticlesOfWorkingFeeds(k) ==
    IF k > Len(feeds) THEN <<>>
    ELSE (IF FeedName(k) \in failed THEN <<>> ELSE AnswerArticles(k))
         \o ArticlesOfWorkingFeeds(k + 1)

\* C3, as claimed: a failed source has its empty/zero default (a failed symbol price 0
\* and change 0, failed crypto an empty mapping, a failed location no observation, a
\* failed feed no items), every other source has the value it served, and a run whose
\* portfolio file, its holdings and the crypto answer are dicts ends neither in
\* acquisition nor in narration.
C3_Claimed_FailuresIsolated ==
    /\ PastAcquisition =>
        /\ \A sym \in Names(stocks) :
              IF ("stock:" \o sym) \in failed
              THEN stocks[Key(sym)].price = 0 /\ stocks[Key(sym)].change_pct = Zero
              ELSE stocks[Key(sym)] = Quote(world.quotes[sym])
        /\ Names(stocks) = {portfolio.stocks[i].symbol : i \in 1..Len(portfolio.stocks)}
        /\ crypto = IF "crypto" \in failed THEN EmptyDict ELSE world.crypto
        /\ \A key \in DOMAIN locations :
              IF ("weather:" \o key) \in failed
              THEN key \notin DOMAIN weather
              ELSE /\ key \in DOMAIN weather
                   /\ \A f \in DOMAIN world.weather[key] : weather[key][f] = world.weather[key][f]
        /\ articles = ArticlesOfWorkingFeeds(1)
    /\ (pc = "crashed" /\ IsDict(portfolio) /\ IsHoldings(Get(portfolio, "stocks", <<>>))
            /\ IsDict(crypto)) =>
        LastOp \notin {"load_portfolio", "fetch_stock_data", "fetch_crypto_data", "fetch_weather",
                       "fetch_middle_east_news", "compile"} \cup (VoiceOps \ {"voice:weather"})

\* C4, as claimed: the page holds a playback control for exactly the topics that have
\* an audio file in voice_files.
C4_Claimed_ControlsFollowAudio ==
    PastRender => DOMAIN html.audio = DOMAIN voice_files

\* the pipeline stage of an operation, as the claim counts them
Stage(op) ==
    CASE op \in AcquisitionOps -> 1
      [] op \in ScriptOps -> 2
      [] op \in VoiceOps -> 3
      [] op \in RenderOps -> 4
      [] op \in PersistOps -> 5

\* C5, as claimed: the stages do not interleave: acquisition, then all narration, then
\* all audio, then the page, then persistence.
C5_Claimed_StagesInOrder ==
    \A i \in 1..Len(events) - 1 : Stage(events[i]) <= Stage(events[i + 1])

\* the stage of an operation with narration and audio as one per-topic stage
MergedStage(op) == IF op \in ScriptOps \cup VoiceOps THEN 2 ELSE Stage(op)

\* C5, amended: acquisition finishes before any narration; narration and audio go topic
\* by topic, each topic's script followed at once by its own audio rendering; all five
\* audio renderings finish before the page is rendered, and the page is rendered before
\* index.html, the pointer or the JSON snapshot is written; operations run one at a time.
C5_StageOrder ==
    /\ \A i \in 1..Len(events) - 1 : MergedStage(events[i]) <= MergedStage(events[i + 1])
    /\ \A i \in 1..Len(events) : \A t \in Topics :
          /\ (events[i] = "script:" \o t /\ i < Len(events)) => events[i + 1] = "voice:" \o t
          /\ (events[i] = "voice:" \o t) => (i > 1 /\ events[i - 1] = "script:" \o t)
    /\ (\E op \in ScriptOps : Done(op)) => \A op \in AcquisitionOps : Done(op)
    /\ Done("generate_html") => \A op \in VoiceOps : Done(op)
    /\ (\E op \in PersistOps : Done(op)) => Done("generate_html")
    /\ Cardinality({events[i] : i \in 1..Len(events)}) = Len(events)

\* a complete run, in which the stocks script came after the summary's audio
C5_Witness ==
    /\ pc = "done"
    /\ \E i \in 1..Len(events) : events[i] = "voice:summary" /\ events[i + 1] = "script:stocks"
    /\ Done("write:data.json")

\* the first PrefixLen characters of the headline of the i-th candidate, lower-cased
HeadlinePrefix(i) ==
    LET t == articles[i].title
    IN  Lower(SubSeq(t, 1, IF Len(t) < PrefixLen THEN Len(t) ELSE PrefixLen))

\* candidate i comes before candidate j in the relevance-sorted list
Before(i, j) ==
    \/ articles[i].relevance > articles[j].relevance
    \/ articles[i].relevance = articles[j].relevance /\ i < j

Candidates == 1..Len(articles)
Returned == {ranked[k] : k \in 1..Len(ranked)}

\* the candidates no earlier candidate of the sorted list shares the prefix of
Survivors ==
    {i \in Candidates :
        ~\E h \in Candidates : Before(h, i) /\ HeadlinePrefix(h) = HeadlinePrefix(i)}

\* C8, as claimed: of two candidates with the same prefix the one collected later is
\* dropped.
C8_Claimed_FirstCollectedKept ==
    pc = "compile" =>
        \A i, j \in Candidates :
            (i < j /\ HeadlinePrefix(i) = HeadlinePrefix(j)) => j \notin Returned

\* C8, amended: of two candidates with the same prefix the one that comes later in the
\* relevance-sorted list (the lower score, or with equal scores the one collected
\* later) is dropped; the result holds at most one item with that prefix, the first of
\* the sorted list, and holds it whenever fewer than five survivors precede it.
C8_FirstSortedKept ==
    pc = "compile" =>
        /\ \A i, j \in Candidates :
              (Before(i, j) /\ HeadlinePrefix(i) = HeadlinePrefix(j)) => j \notin Returned
        /\ \A i \in Survivors :
              Cardinality({h \in Survivors : Before(h, i)}) < TopN => i \in Returned
        /\ middle_east_news = [k \in 1..Len(ranked) |-> articles[ranked[k]]]

\* two candidates share a prefix, the later collected has the higher score and is the
\* one returned
C8_Witness ==
    /\ pc = "compile"
    /\ \E i, j \in Candidates :
        /\ i < j
        /\ HeadlinePrefix(i) = HeadlinePrefix(j)
        /\ articles[j].relevance > articles[i].relevance
        /\ j \in Returned
        /\ i \notin Returned

\* C9: the result has at most five items, in non-increasing relevance, with pairwise
\* different prefixes, and is exactly the first five survivors of the sorted list, in
\* the order of that list.
C9_RankedList ==
    pc = "compile" =>
        LET n == Len(middle_east_news)
        IN  /\ n <= TopN
            /\ \A a, b \in 1..n : a < b =>
                  middle_east_news[a].relevance >= middle_east_news[b].relevance
            /\ \A a, b \in 1..n : a # b =>
                  Lower(Take(middle_east_news[a].title, PrefixLen))
                      # Lower(Take(middle_east_news[b].title, PrefixLen))
            /\ Len(ranked) = n
            /\ \A k \in 1..n : middle_east_news[k] = articles[ranked[k]]
            /\ Returned = {i \in Survivors : Cardinality({h \in Survivors : Before(h, i)}) < TopN}
            /\ \A a, b \in 1..n : a < b => Before(ranked[a], ranked[b])

\* more than five survivors and a duplicate among at least seven candidates
C9_Witness ==
    /\ pc = "compile"
    /\ Len(articles) >= 7
    /\ Cardinality(Survivors) > TopN
    /\ Len(middle_east_news) = TopN
    /\ \E i \in Candidates : i \notin Survivors /\ Cardinality({h \in Survivors : Before(h, i)}) < TopN

\* the sentence of the summary that names a holding
DragPhrase(sym) == sym \o " is your biggest drag. "

\* the holdings the summary names
NamedHoldings == {i \in 1..Len(DataHeld) : Has(out.script, DragPhrase(DataHeld[i].symbol))}

Magnitude(x) == IF x < 0 THEN 0 - x ELSE x

\* C11, as claimed: a ticker named in the summary has the largest absolute change of
\* the holdings, whether a gain or a loss.
C11_Claimed_LargestMagnitudeNamed ==
    out.topic = "summary" =>
        \A i \in NamedHoldings : \A j \in 1..Len(DataHeld) :
            Magnitude(DataHeldChange(i)) >= Magnitude(DataHeldChange(j))

\* C11, amended: the summary names at most one holding, the biggest loser: the holding
\* with the lowest change (the first of them in portfolio order), and only on a red
\* day (mean change below -2) when that change is below -3; a gain is never named,
\* whatever its magnitude.
C11_BiggestLoserNamed ==
    out.topic = "summary" =>
        LET n == Len(DataHeld)
            red == n > 0 /\ DataChangeSum < Num(-2) * n
            loser(i) == /\ \A j \in 1..n : DataHeldChange(i) <= DataHeldChange(j)
                        /\ \A j \in 1..(i - 1) : DataHeldChange(j) > DataHeldChange(i)
        IN  /\ \A i \in 1..n :
                  i \in NamedHoldings <=> (red /\ loser(i) /\ DataHeldChange(i) < Num(-3))
            /\ Cardinality({k \in 1..Len(out.script) :
                    \E i \in 1..n : out.script[k] = DragPhrase(DataHeld[i].symbol)}) <= 1

\* the summary names a loser although another holding gained more than it lost
C11_Witness ==
    /\ out.topic = "summary"
    /\ \E i \in NamedHoldings : \E j \in 1..Len(DataHeld) :
          /\ DataHeldChange(j) > 0
          /\ DataHeldChange(j) > Magnitude(DataHeldChange(i))

\* the quotes hold the ticker
Quoted(sym) == sym \in DOMAIN DataStocks
\* the change of a quoted ticker, 0 when its quote has none
QuotedChange(sym) ==
    IF "change_pct" \in DOMAIN DataStocks[sym] THEN Fixed(DataStocks[sym].change_pct) ELSE 0

\* C12: the stocks narration holds the whole-market sentence iff VOO is quoted with a
\* change below -1, the market-is-up sentence iff VOO is quoted with a change above +1,
\* neither for a change within [-1, +1] or without a VOO quote; it holds the Nvidia
\* drop sentence iff NVDA is quoted with a negative change of magnitude above 2; the
\* VOO and Nvidia sentences do not depend on each other.
C12_MarketAndNvidia ==
    out.topic = "stocks" =>
        /\ ~out.raised
        /\ Has(out.script, MarketDown) <=> (Quoted("VOO") /\ QuotedChange("VOO") < Num(-1))
        /\ Has(out.script, MarketUp) <=> (Quoted("VOO") /\ QuotedChange("VOO") > Num(1))
        /\ Has(out.script, NvidiaDown) <=> (Quoted("NVDA") /\ QuotedChange("NVDA") < Num(-2))
        /\ Count(out.script, {MarketDown, MarketUp}) <= 1

\* NVDA at -6 and VOO between -2 and -1: both sentences
C12_Witness ==
    /\ out.topic = "stocks"
    /\ Quoted("NVDA") /\ QuotedChange("NVDA") = Num(-6)
    /\ Quoted("VOO") /\ QuotedChange("VOO") < Num(-1) /\ QuotedChange("VOO") > Num(-2)
    /\ Has(out.script, NvidiaDown)
    /\ Has(out.script, MarketDown)

\* the watch-list tickers that are quoted
WatchList == <<"NVDA", "GOOGL", "META", "AAPL", "MSFT", "AMZN">>
QuotedWatchList == SelectSeq(WatchList, Quoted)
SectorSum == Sum([i \in 1..Len(QuotedWatchList) |-> QuotedChange(QuotedWatchList[i])])

\* C19: the sector average is the mean change of the quoted watch-list tickers; the
\* narration holds the negative sector commentary iff it is below -2, the positive one
\* iff it is above +2, and none otherwise, also when no watch-list ticker is quoted.
C19_SectorCommentary ==
    out.topic = "stocks" =>
        LET n == Len(QuotedWatchList)
            negative == n > 0 /\ SectorSum < Num(-2) * n
            positive == n > 0 /\ SectorSum > Num(2) * n
        IN  /\ ~out.raised
            /\ Has(out.script, TechHit) <=> negative
            /\ Has(out.script, TechHitWhy) <=> negative
            /\ Has(out.script, TechLeading) <=> positive
            /\ Count(out.script, {TechHit, TechLeading}) <= 1

\* the negative commentary for two quoted tickers whose changes, spread over the six
\* tickers of the watch list, would not reach -2
C19_Witness ==
    /\ out.topic = "stocks"
    /\ Len(QuotedWatchList) = 2
    /\ SectorSum >= Num(-2) * Len(WatchList)
    /\ Has(out.script, TechHit)

\* the current observation of a location, without the narration code
Location(key) == IF key \in DOMAIN DataWeather THEN DataWeather[key] ELSE EmptyDict
Current(key) ==
    IF "current_weather" \in DOMAIN Location(key) THEN Location(key).current_weather
    ELSE EmptyDict
Observed(key, field) == field \in DOMAIN Current(key)
DohaTemperature == IF Observed("doha", "temperature") THEN Current("doha").temperature ELSE Num(20)
UdeidWind == IF Observed("al_udeid", "windspeed") THEN Current("al_udeid").windspeed ELSE 0

StartsWith(str, prefix) ==
    Len(str) >= Len(prefix) /\ SubSeq(str, 1, Len(prefix)) = prefix
\* the script holds the high-wind advisory
WindAdvisory == \E k \in 1..Len(out.script) : StartsWith(out.script[k], WatchTheWind)

\* C13, as claimed: for an observation of 40 degrees and wind 35 the narration holds the
\* hot phrase and the high-wind advisory, and it holds the advisory whenever an observed
\* wind speed exceeds 30.
C13_Claimed_HotAndWindy ==
    out.topic = "weather" =>
        /\ \A key \in {"doha", "al_udeid"} :
              (/\ Observed(key, "temperature") /\ Current(key).temperature = Num(40)
               /\ Observed(key, "windspeed") /\ Current(key).windspeed = Num(35))
              => (Has(out.script, HotOne) /\ WindAdvisory)
        /\ \A key \in {"doha", "al_udeid"} :
              (Observed(key, "windspeed") /\ Current(key).windspeed > Num(30)) => WindAdvisory

\* C13, amended: the hot phrase follows Doha's current temperature (38 or above) and
\* the high-wind advisory follows Al Udeid's wind speed, emitted iff it exceeds 25 (so
\* whenever it exceeds 30); Doha's wind speed plays no part.  With Doha at 40 degrees
\* and Al Udeid's wind at 35 both phrases appear.
C13_HotAndWindy ==
    out.topic = "weather" =>
        /\ ~out.raised
        /\ Has(out.script, HotOne) <=> DohaTemperature >= Num(38)
        /\ WindAdvisory <=> UdeidWind > Num(25)
        /\ (DohaTemperature = Num(40) /\ UdeidWind = Num(35)) =>
              (Has(out.script, HotOne) /\ WindAdvisory)

\* Doha at 40 degrees, Al Udeid's wind at 35: both phrases
C13_Witness ==
    /\ out.topic = "weather"
    /\ Observed("doha", "temperature") /\ DohaTemperature = Num(40)
    /\ Observed("al_udeid", "windspeed") /\ UdeidWind = Num(35)
    /\ Has(out.script, HotOne)
    /\ WindAdvisory

BandPhrasesOfWeather == {NiceAndCool, Comfortable, WarmButManageable, HotOne}

\* C14, as claimed: five bands, each with a phrase of its own: a temperature below 15
\* does not get the phrase of the band from 15 to 22.
C14_Claimed_FiveBands ==
    out.topic = "weather" =>
        /\ Count(out.script, BandPhrasesOfWeather) <= 1
        /\ (DohaTemperature >= Num(15) /\ DohaTemperature < Num(22)) => Has(out.script, NiceAndCool)
        /\ DohaTemperature < Num(15) => ~Has(out.script, NiceAndCool)

\* C14, amended: exactly one temperature advisory phrase, from four bands: below 22
\* (temperatures below 15 included), 22 to 30, 30 to 38, and 38 or above; a missing
\* temperature counts as 20.
C14_FourBands ==
    out.topic = "weather" =>
        LET t == DohaTemperature
        IN  /\ Count(out.script, BandPhrasesOfWeather) = 1
            /\ Has(out.script, NiceAndCool) <=> t < Num(22)
            /\ Has(out.script, Comfortable) <=> (t >= Num(22) /\ t < Num(30))
            /\ Has(out.script, WarmButManageable) <=> (t >= Num(30) /\ t < Num(38))
            /\ Has(out.script, HotOne) <=> t >= Num(38)
            /\ ~Observed("doha", "temperature") =>
                  (Has(out.script, NiceAndCool) /\ Has(out.script, "Doha right now: 20 degrees. "))

\* a temperature below 15 gets the phrase of the band below 22
C14_Witness ==
    /\ out.topic = "weather"
    /\ Observed("doha", "temperature")
    /\ DohaTemperature < Num(15)
    /\ Has(out.script, NiceAndCool)

TrendPhrases == {WarmingUp, CoolingDown, PrettyConsistent}

\* the forecast highs the outlook reads: at most seven
WeekHighs ==
    [i \in 1..(IF Len(DataDohaHighs) < 7 THEN Len(DataDohaHighs) ELSE 7) |-> DataDohaHighs[i]]
EarlySum == Sum([i \in 1..3 |-> WeekHighs[i]])
LateSum == Sum([i \in 1..(Len(WeekHighs) - 3) |-> WeekHighs[i + 3]])

\* C15, as claimed: with at least three highs the narration holds exactly one trend
\* phrase: warming iff the mean of the highs after the third (up to the seventh)
\* exceeds the mean of the first three by more than 3, cooling iff it is lower by more
\* than 3, consistent otherwise, and consistent for exactly three highs; with fewer
\* than three highs it holds none; it never raises.  The means are the exact ones.
C15_Claimed_WeeklyTrend ==
    out.topic = "weather" =>
        LET n == Len(WeekHighs)
            m == n - 3
            warming == n > 3 /\ 3 * LateSum > m * (EarlySum + 3 * Num(3))
            cooling == n > 3 /\ 3 * LateSum < m * (EarlySum - 3 * Num(3))
        IN  /\ ~out.raised
            /\ Count(out.script, TrendPhrases) = (IF n >= 3 THEN 1 ELSE 0)
            /\ n >= 3 =>
                  /\ Has(out.script, WarmingUp) <=> warming
                  /\ Has(out.script, CoolingDown) <=> cooling
                  /\ Has(out.script, PrettyConsistent) <=> (~warming /\ ~cooling)
            /\ n = 3 => Has(out.script, PrettyConsistent)

\* C16: for an absent or empty news list generate_news_script returns the quiet-day
\* phrase and nothing else, without raising; for a non-empty list the script does not
\* hold that phrase.
C16_QuietDay ==
    out.topic = "news" =>
        /\ ~out.raised
        /\ Len(DataNews) = 0 => out.script = <<QuietDay>>
        /\ Len(DataNews) > 0 => (~Has(out.script, QuietDay) /\ Len(out.script) >= 3)

\* a snapshot whose news section has no list at all
C16_Witness ==
    /\ out.topic = "news"
    /\ "news" \in DOMAIN briefing_data
    /\ "middle_east" \notin DOMAIN briefing_data.news
    /\ out.script = <<QuietDay>>

\* the headline of the i-th news item, lower-cased
Headline(i) == Lower(IF "title" \in DOMAIN DataNews[i] THEN DataNews[i].title ELSE "")
\* the first n positions of the news list
Top(n) == 1..(IF Len(DataNews) < n THEN Len(DataNews) ELSE n)
Mentions(positions, words) ==
    \E i \in positions : LET h == Headline(i) IN \E w \in words : Contains(h, w)

\* C17, as claimed: the heightened opening iff one of the first three headlines holds
\* one of strike, attack, missile, killed, war, escalate, threat.
C17_Claimed_TensionWords ==
    (out.topic = "news" /\ Len(DataNews) > 0) =>
        (Has(out.script, HeadsUp) <=>
            Mentions(Top(3), {"strike", "attack", "missile", "killed", "war", "escalate", "threat"}))

\* C17, amended: for a non-empty news list the script opens with exactly one of the
\* two framings: the heightened one iff one of the first three headlines holds, as a
\* case-insensitive substring, one of strike, attack, missile, killed, war, escalat,
\* threat (the stem "escalat", so escalating and escalation count too), the neutral one
\* otherwise.
C17_TensionFraming ==
    (out.topic = "news" /\ Len(DataNews) > 0) =>
        LET tense == Mentions(Top(3), {"strike", "attack", "missile", "killed", "war",
                                       "escalat", "threat"})
        IN  /\ Count(out.script, {HeadsUp, WhatsHappening}) = 1
            /\ out.script[1] = (IF tense THEN HeadsUp ELSE WhatsHappening)

\* the heightened opening for a headline with "escalating" and no other tension word
C17_Witness ==
    /\ out.topic = "news"
    /\ Len(DataNews) > 0
    /\ Mentions(Top(3), {"escalating"})
    /\ ~Mentions(Top(3), {"strike", "attack", "missile", "killed", "war", "escalate", "threat"})
    /\ Has(out.script, HeadsUp)

\* the first five headlines as the narration joins them: lower-cased, a space between
JoinedHeadlines == Join([i \in Top(5) |-> Headline(i)])
InJoined(joined, words) == \E w \in words : Contains(joined, w)

ContextPhrases == <<GazaLine, IranLine, RedSeaLine, GulfLine>>
ContextWords ==
    <<{"gaza", "israel"}, {"iran"}, {"houthi", "red sea"}, {"saudi", "uae"}>>
\* the context sentences of a script, in its order
ContextOf(script) == SelectSeq(script, LAMBDA ph : \E c \in 1..4 : ph = ContextPhrases[c])

\* the news script for the picked headlines of the pool
ScriptOfPicks(picks) ==
    generate_news_script([news |-> [middle_east |-> Headlines(picks)]]).script

\* each of the 16 combinations of the four context sentences is produced by some news
\* list, with the heightened opening and with the neutral one
AllCombinationsProducible ==
    \A combo \in SUBSET (1..4) : \A opening \in {HeadsUp, WhatsHappening} :
        \E picks \in SUBSET {1, 2, 3, 6, 7, 9} :
            /\ picks # {}
            /\ {c \in 1..4 : Has(ScriptOfPicks(picks), ContextPhrases[c])} = combo
            /\ ScriptOfPicks(picks)[1] = opening

\* C18, as claimed: a context sentence is emitted iff one of its keywords occurs in one
\* of the first five headlines.
C18_Claimed_KeywordInHeadline ==
    (out.topic = "news" /\ Len(DataNews) > 0) =>
        \A c \in 1..4 : Has(out.script, ContextPhrases[c]) <=> Mentions(Top(5), ContextWords[c])

\* C18, amended: a context sentence is emitted iff one of its keywords occurs in the
\* text of the first five headlines lower-cased and joined by spaces (so "red sea" also
\* matches where one headline ends in "red" and the next begins with "sea"); the four
\* sentences do not depend on each other or on the opening, all 16 combinations are
\* produced, and the emitted sentences keep the order Gaza, Iran, Red Sea, Gulf.
C18_ContextSentences ==
    (out.topic = "news" /\ Len(DataNews) > 0) =>
        LET joined == JoinedHeadlines
            expected == [c \in 1..4 |-> InJoined(joined, ContextWords[c])]
        IN  /\ \A c \in 1..4 : Has(out.script, ContextPhrases[c]) <=> expected[c]
            /\ ContextOf(out.script) =
                  SelectSeq(ContextPhrases, LAMBDA ph : \E c \in 1..4 :
                                ph = ContextPhrases[c] /\ expected[c])
            /\ AllCombinationsProducible

\* the Red Sea sentence without a headline that holds one of its keywords, together
\* with the Gulf sentence and without the Gaza and Iran sentences
C18_Witness ==
    /\ out.topic = "news"
    /\ Len(DataNews) > 0
    /\ ~Mentions(Top(5), ContextWords[3])
    /\ ContextOf(out.script) = <<RedSeaLine, GulfLine>>

\* the summary script of the run is written
SummaryWritten == "summary" \in DOMAIN scripts

\* C20: the summary of a run holds the news teaser iff one of the news items of the
\* run, at whatever position of the ranked list, has a relevance above 2; with no news
\* items it holds no teaser.
C20_NewsTeaser ==
    SummaryWritten =>
        /\ Has(scripts.summary, SignificantNews) <=>
              \E i \in 1..Len(middle_east_news) : middle_east_news[i].relevance > 2
        /\ Len(middle_east_news) = 0 => ~Has(scripts.summary, SignificantNews)
        /\ briefing_data.news.middle_east = middle_east_news

\* the teaser for a list whose second item is above the threshold and whose last is not
C20_Witness ==
    /\ SummaryWritten
    /\ Len(middle_east_news) >= 3
    /\ middle_east_news[2].relevance > 2
    /\ middle_east_news[Len(middle_east_news)].relevance <= 2
    /\ Has(scripts.summary, SignificantNews)

\* the main-story sentences, for every size of move
HitPhrases == {TakingAHit(x) : x \in 0..Num(MaxChange)}

\* C25: the summary holds the sentence saying that crypto is taking a hit and Bitcoin is
\* down only when Bitcoin's 24h change is negative, a drop of more than 5 percent; never
\* when the change is zero, positive or absent.
C25_Claimed_HitOnlyWhenDown ==
    out.topic = "summary" =>
        (Count(out.script, HitPhrases) > 0 => DataCoinChange("bitcoin") < Num(-5))

\* the calls of generate_voice that returned True
Succeeded == {spoken[i].topic : i \in {j \in 1..Len(spoken) : spoken[j].ok}}

\* C24: the keys of voice_files are exactly the topics whose generate_voice call
\* returned True (exit code 0 and the output file there, nothing raised), each mapped to
\* audio_<topic>.wav; a topic whose call failed is no key; and every call speaks the
\* topic's own script with the voice VOICES assigns to the topic, into the topic's file.
C24_VoiceFiles ==
    /\ DOMAIN voice_files = Succeeded
    /\ \A t \in DOMAIN voice_files : voice_files[t] = AudioFile(t)
    /\ Len(spoken) = Len(attempted)
    /\ \A i \in 1..Len(spoken) :
        /\ spoken[i].topic = TopicOrder[i]
        /\ spoken[i].voice = VOICES[spoken[i].topic]
        /\ spoken[i].text = scripts[spoken[i].topic]
        /\ spoken[i].output = AudioFile(spoken[i].topic)
        /\ ~spoken[i].ok => spoken[i].topic \notin DOMAIN voice_files

\* generate_all_voices has returned with some topics recorded and some not
C24_Witness ==
    /\ PastAudio
    /\ DOMAIN voice_files = {"summary", "crypto", "weather"}
    /\ Succeeded = {"summary", "crypto", "weather"}
    /\ voice_files["crypto"] = "audio_crypto.wav"
    /\ spoken[4].voice = "bf_emma"
    /\ ~spoken[4].ok

\* C23: the pointer file .current_page is written only after the run's index.html and
\* its data.json have both been written: in no state of a run, a run that fails in the
\* middle of persistence included, is the pointer there while the page or the JSON
\* snapshot of the run is missing.
C23_Claimed_PointerAfterSnapshot ==
    ".current_page" \in disk => {"index.html", "data.json"} \subseteq disk

\* the snapshot written to data.json and read back
Reloaded == json_load(json_dump(briefing_data))

\* the snapshot read back is the snapshot, and the function that was called gives on
\* it, under the date of the call, what the call gave
ReloadedNarratesTheSame ==
    /\ Reloaded = briefing_data
    /\ out.topic # "none" =>
        LET reloaded == Narrate(out.topic, Reloaded, out.date)
        IN  out.raised = reloaded.raised /\ out.script = reloaded.script

\* a call of the function that was called last, the summary on the same date
CalledAgain ==
    /\ out.topic # "none"
    /\ out'.topic = out.topic
    /\ out.topic = "summary" => out'.date = out.date

ResultsOfSnapshot ==
    /\ out.topic # "none" => out.script = Narrate(out.topic, briefing_data, out.date).script
    /\ \A t \in DOMAIN scripts :
          \E date \in (IF t = "summary" THEN {Today, Tomorrow} ELSE {Today}) :
              scripts[t] = Narrate(t, briefing_data, date).script
    /\ pc = "write_index" => html = generate_html(briefing_data, voice_files)

\* C22: no call of a narration function, no step of generate_all_voices and no call of
\* generate_html changes the snapshot (portfolio, quotes, weather observations, news
\* list and the order of its items), and each result is the one the function gives on
\* the snapshot alone, whatever was called before it.
C22_SnapshotUntouched ==
    /\ []ResultsOfSnapshot
    /\ [][briefing_data' = briefing_data]_vars

\* the page rendered after narration calls and all five audio steps, on a snapshot whose
\* holdings are not in the order of their changes
C22_Witness ==
    /\ pc = "write_index"
    /\ out.topic = "stocks"
    /\ DOMAIN scripts = Topics
    /\ Len(spoken) = 5
    /\ DataHeldChange(1) = Num(-2) /\ DataHeldChange(2) = Num(-7)
    /\ DataHeld[1].symbol = "NVDA"
    /\ Len(DataNews) >= 3

====
